---- MODULE Spec2Model ----
(***************************************************************************)
(* stern-logger: the trace context store (TraceContextManager and the      *)
(* exported functions over its process-wide instance), the trace mixin,    *)
(* and the logger's trace context methods.                                 *)
(*                                                                         *)
(* The Map `contexts` is a sequence of entries in insertion order, which   *)
(* is the order a JavaScript Map iterates in.  Date.now() is the variable  *)
(* `now`; the setInterval timer is the time its next callback is due.      *)
(***************************************************************************)
EXTENDS Integers, Sequences, FiniteSets, TLC

\* ---------------------------------------------------------------- bounds
\* TraceContextConfig of the store under analysis (maxSize, ttlMs and
\* cleanupIntervalMs are constructor parameters; small values stand for them).
MaxSize == 2
TtlMs == 1
CleanupIntervalMs == 1
\* Largest clock reading explored.
MaxTime == 2
\* Number of distinct span contexts callers pass.
NumContexts == 2
\* Longest pattern string and longest namespace given to the namespace filter.
MaxPatternLen == 4
MaxNamespaceLen == 2
\* Largest number of NamespaceConfig objects created in one run.
MaxConfigs == 4
\* Largest number of logger objects created in one run.
MaxLoggers == 4
\* Largest number of process event handlers created in one run.
MaxHandlers == 6
\* VALIDATION_LIMITS.MAX_CONTEXT_FIELDS as set by LOG_MAX_CONTEXT_FIELDS, and
\* the largest number of further entries of a metadata object.
MaxContextFields == 3
MaxOthers == 3
\* The browser logger: options.remote.batch.size, the capacity of the offline
\* buffer (a small value stands for MAX_OFFLINE_BUFFER_SIZE), the largest
\* number of entries logged and of BrowserLogger instances constructed.
BatchSize == 2
MaxOfflineBufferSize == 2
MaxEntries == 3
MaxBrowserLoggers == 2

\* The context ids callers pass: one more than the store has room for.
ThreadIds == {1, 2, 3}
SpanContexts == 1 .. NumContexts

\* undefined: a missing key, a void return, a cleared timer.
Undefined == 0

\* ------------------------------------------------------ Map<string, Entry>
Keys(contexts) == {contexts[i].key : i \in 1 .. Len(contexts)}

IndexOf(contexts, key) ==
    CHOOSE i \in 1 .. Len(contexts) : contexts[i].key = key

MapHas(contexts, key) == key \in Keys(contexts)

MapGet(contexts, key) == contexts[IndexOf(contexts, key)]

\* Map.prototype.delete: the other entries keep their relative order.
MapDelete(contexts, key) ==
    SelectSeq(contexts, LAMBDA e : e.key # key)

\* Map.prototype.set: an existing key keeps its position, a new key goes last.
MapSet(contexts, key, entry) ==
    IF MapHas(contexts, key)
    THEN [contexts EXCEPT ![IndexOf(contexts, key)] = entry]
    ELSE Append(contexts, entry)

\* ---------------------------------------------------- TraceContextManager
\* The for-of loop of evictOldest from entry i on: the first entry whose
\* lastAccessed is strictly below every earlier candidate and below the
\* clock reading the scan started from.
RECURSIVE ScanOldest(_, _, _, _)
ScanOldest(contexts, i, oldestKey, oldestTime) ==
    IF i > Len(contexts)
    THEN oldestKey
    ELSE IF contexts[i].lastAccessed < oldestTime
         THEN ScanOldest(contexts, i + 1, contexts[i].key, contexts[i].lastAccessed)
         ELSE ScanOldest(contexts, i + 1, oldestKey, oldestTime)

\* Variant of OldestKey: the first entry in iteration order that was last
\* accessed before t (oldestTime is not lowered during the scan).
FirstOlderKey(contexts, t) ==
    IF \E i \in 1 .. Len(contexts) : contexts[i].lastAccessed < t
    THEN contexts[CHOOSE i \in 1 .. Len(contexts) :
                    /\ contexts[i].lastAccessed < t
                    /\ \A j \in 1 .. (i - 1) : contexts[j].lastAccessed >= t].key
    ELSE Undefined

OldestKey(contexts, t) == ScanOldest(contexts, 1, Undefined, t)

EvictOldest(contexts, t) ==
    IF OldestKey(contexts, t) # Undefined
    THEN MapDelete(contexts, OldestKey(contexts, t))
    ELSE contexts

\* Variant of Set: a full store from which nothing could be evicted is left as it is.
SetUnlessFull(m, threadId, context, t, tEvict) ==
    LET kept == IF Len(m.contexts) >= MaxSize
                THEN EvictOldest(m.contexts, tEvict)
                ELSE m.contexts
    IN IF Len(kept) >= MaxSize
       THEN m
       ELSE [m EXCEPT !.contexts =
                MapSet(kept, threadId,
                       [key |-> threadId, context |-> context,
                        timestamp |-> t, lastAccessed |-> t])]

\* set(threadId, context): t is the Date.now() read by set, tEvict the one
\* read by evictOldest afterwards.
Set(m, threadId, context, t, tEvict) ==
    LET kept == IF Len(m.contexts) >= MaxSize
                THEN EvictOldest(m.contexts, tEvict)
                ELSE m.contexts
    IN [m EXCEPT !.contexts =
            MapSet(kept, threadId,
                   [key |-> threadId, context |-> context,
                    timestamp |-> t, lastAccessed |-> t])]

\* The key evictOldest removes during set, Undefined when it removes none.
Evicted(m, tEvict) ==
    IF Len(m.contexts) >= MaxSize THEN OldestKey(m.contexts, tEvict) ELSE Undefined

IsExpired(entry, t) == t - entry.timestamp > TtlMs

\* The key get deletes as expired, Undefined when it deletes none.
Expired(m, threadId, t) ==
    IF MapHas(m.contexts, threadId) /\ IsExpired(MapGet(m.contexts, threadId), t)
    THEN threadId
    ELSE Undefined

\* Variant of Get: every expired entry is purged on the way, not only threadId's.
GetPurging(m, threadId, t) ==
    LET live == SelectSeq(m.contexts, LAMBDA e : ~(t - e.timestamp > TtlMs))
    IN IF ~MapHas(live, threadId)
       THEN [m |-> [m EXCEPT !.contexts = live], ret |-> Undefined]
       ELSE [m |-> [m EXCEPT !.contexts =
                       [live EXCEPT ![IndexOf(live, threadId)].lastAccessed = t]],
             ret |-> MapGet(live, threadId).context]

\* Variant of Get: the age is taken from lastAccessed, so a read renews the entry.
GetSliding(m, threadId, t) ==
    IF ~MapHas(m.contexts, threadId)
    THEN [m |-> m, ret |-> Undefined]
    ELSE IF t - MapGet(m.contexts, threadId).lastAccessed > TtlMs
         THEN [m |-> [m EXCEPT !.contexts = MapDelete(m.contexts, threadId)],
               ret |-> Undefined]
         ELSE [m |-> [m EXCEPT !.contexts[IndexOf(m.contexts, threadId)].lastAccessed = t],
               ret |-> MapGet(m.contexts, threadId).context]

\* Variant of Get: a read leaves lastAccessed as it was.
GetWithoutTouch(m, threadId, t) ==
    IF ~MapHas(m.contexts, threadId)
    THEN [m |-> m, ret |-> Undefined]
    ELSE IF IsExpired(MapGet(m.contexts, threadId), t)
         THEN [m |-> [m EXCEPT !.contexts = MapDelete(m.contexts, threadId)],
               ret |-> Undefined]
         ELSE [m |-> m, ret |-> MapGet(m.contexts, threadId).context]

\* get(threadId) at clock reading t: the store afterwards and the value returned.
Get(m, threadId, t) ==
    IF ~MapHas(m.contexts, threadId)
    THEN [m |-> m, ret |-> Undefined]
    ELSE IF IsExpired(MapGet(m.contexts, threadId), t)
         THEN [m |-> [m EXCEPT !.contexts = MapDelete(m.contexts, threadId)],
               ret |-> Undefined]
         ELSE [m |-> [m EXCEPT !.contexts[IndexOf(m.contexts, threadId)].lastAccessed = t],
               ret |-> MapGet(m.contexts, threadId).context]

\* Variant of Clear: Map.clear() in place of Map.delete(threadId).
ClearEverything(m, threadId) == [m EXCEPT !.contexts = <<>>]

Clear(m, threadId) == [m EXCEPT !.contexts = MapDelete(m.contexts, threadId)]

ClearAll(m) == [m EXCEPT !.contexts = <<>>]

Size(m) == Len(m.contexts)

\* Variant of Cleanup: an entry goes as soon as its age reaches ttlMs.
CleanupFromTtl(m, t) ==
    [m EXCEPT !.contexts = SelectSeq(m.contexts, LAMBDA e : t - e.timestamp < TtlMs)]

\* cleanup(): delete every entry older than ttlMs.
Cleanup(m, t) ==
    [m EXCEPT !.contexts = SelectSeq(m.contexts, LAMBDA e : ~IsExpired(e, t))]

\* startCleanup(): an already running timer is kept.
StartCleanup(m, t) ==
    IF m.cleanupTimer # Undefined
    THEN m
    ELSE [m EXCEPT !.cleanupTimer = t + CleanupIntervalMs]

DestroyKeepingEntries(m) == [m EXCEPT !.cleanupTimer = Undefined]

Destroy(m) == ClearAll([m EXCEPT !.cleanupTimer = Undefined])

\* new TraceContextManager() at clock reading t.
NewManager(t) ==
    StartCleanup([contexts |-> <<>>, cleanupTimer |-> Undefined], t)

\* The interval callback is due.
TimerDue(m, t) == m.cleanupTimer # Undefined /\ t >= m.cleanupTimer

\* One run of the interval callback, rescheduled one interval later.
RunTimer(m, t) ==
    IF TimerDue(m, t)
    THEN [Cleanup(m, t) EXCEPT !.cleanupTimer = t + CleanupIntervalMs]
    ELSE m

\* ------------------------------------------------------- namespace filter
\* A string is the sequence of its characters.
PatternChars == {"a", ".", "+", "*", ",", " "}
NamespaceChars == {"a", ".", "+", "\n"}

StringsOver(chars, maxLen) == UNION {[1 .. n -> chars] : n \in 0 .. maxLen}
Patterns == StringsOver(PatternChars, MaxPatternLen)
Namespaces == StringsOver(NamespaceChars, MaxNamespaceLen)

\* String.prototype.trim removes white space and line terminators at both ends.
IsWhiteSpace(char) == char \in {" ", "\t", "\n", "\r"}

RECURSIVE TrimStart(_)
TrimStart(str) ==
    IF Len(str) > 0 /\ IsWhiteSpace(str[1]) THEN TrimStart(Tail(str)) ELSE str

RECURSIVE TrimEnd(_)
TrimEnd(str) ==
    IF Len(str) > 0 /\ IsWhiteSpace(str[Len(str)])
    THEN TrimEnd(SubSeq(str, 1, Len(str) - 1))
    ELSE str

Trim(str) == TrimEnd(TrimStart(str))

\* String.prototype.split(separator): the pieces between the separators,
\* empty pieces included.
RECURSIVE Split(_, _)
Split(str, separator) ==
    IF \E i \in 1 .. Len(str) : str[i] = separator
    THEN LET first == CHOOSE i \in 1 .. Len(str) :
                          /\ str[i] = separator
                          /\ \A j \in 1 .. (i - 1) : str[j] # separator
         IN <<SubSeq(str, 1, first - 1)>>
                \o Split(SubSeq(str, first + 1, Len(str)), separator)
    ELSE <<str>>

\* The characters of the class [.+?^${}()|[\]\\].
RegExpSpecials == {".", "+", "?", "^", "$", "{", "}", "(", ")", "|", "[", "]", "\\"}

EscapeNothing(str) == str

\* p.replace(/[.+?^${}()|[\]\\]/g, '\\$&'): a backslash before each special character.
RECURSIVE EscapeRegExp(_)
EscapeRegExp(str) ==
    IF Len(str) = 0
    THEN <<>>
    ELSE (IF str[1] \in RegExpSpecials THEN <<"\\", str[1]>> ELSE <<str[1]>>)
             \o EscapeRegExp(Tail(str))

\* escaped.replace(/\*/g, '.*')
RECURSIVE ReplaceStars(_)
ReplaceStars(str) ==
    IF Len(str) = 0
    THEN <<>>
    ELSE (IF str[1] = "*" THEN <<".", "*">> ELSE <<str[1]>>) \o ReplaceStars(Tail(str))

\* The source of the RegExp compiled for one pattern: `^${regexPattern}$`.
RegExpSource(pattern) == <<"^">> \o ReplaceStars(EscapeRegExp(pattern)) \o <<"$">>

\* RegExp matching (no flags) for the sources above: an atom is a backslash
\* with the character it makes literal, a dot (any character but a line
\* terminator) or a literal character; an atom may be followed by * or +;
\* ^ at the start and $ at the end anchor the match.
LineTerminators == {"\n", "\r"}

AtomLen(source) == IF source[1] = "\\" THEN 2 ELSE 1

AtomMatches(source, char) ==
    IF source[1] = "\\" THEN char = source[2]
    ELSE IF source[1] = "." THEN char \notin LineTerminators
    ELSE char = source[1]

RECURSIVE MatchHere(_, _)
MatchHere(source, str) ==
    IF Len(source) = 0 THEN TRUE
    ELSE IF Len(source) = 1 /\ source[1] = "$" THEN Len(str) = 0
    ELSE LET rest == SubSeq(source, AtomLen(source) + 1, Len(source))
             quantifier == IF Len(rest) > 0 /\ rest[1] \in {"*", "+"} THEN rest[1] ELSE ""
         IN IF quantifier = ""
            THEN /\ Len(str) > 0
                 /\ AtomMatches(source, str[1])
                 /\ MatchHere(rest, Tail(str))
            ELSE \E n \in (IF quantifier = "*" THEN 0 ELSE 1) .. Len(str) :
                     /\ \A i \in 1 .. n : AtomMatches(source, str[i])
                     /\ MatchHere(Tail(rest), SubSeq(str, n + 1, Len(str)))

\* RegExp.prototype.test
RegExpTest(source, str) ==
    IF Len(source) > 0 /\ source[1] = "^"
    THEN MatchHere(Tail(source), str)
    ELSE \E start \in 1 .. (Len(str) + 1) : MatchHere(source, SubSeq(str, start, Len(str)))

NonEmptyString(str) == Len(str) > 0

\* trimmed.split(',').map(trim).filter(length > 0).map(compile)
Matchers(trimmed) ==
    LET pieces == Split(trimmed, ",")
        patternList == SelectSeq([i \in 1 .. Len(pieces) |-> Trim(pieces[i])], NonEmptyString)
    IN [i \in 1 .. Len(patternList) |-> RegExpSource(patternList[i])]

\* The NamespaceConfig parseNamespacePatterns builds on a cache miss.
NewConfigTestingUntrimmed(patterns) ==
    LET trimmed == Trim(patterns)
    IN IF Len(patterns) = 0 \/ patterns = <<"*">>
       THEN [patterns |-> trimmed, matchers |-> <<>>]
       ELSE [patterns |-> trimmed, matchers |-> Matchers(trimmed)]

NewConfig(patterns) ==
    LET trimmed == Trim(patterns)
    IN IF Len(trimmed) = 0 \/ trimmed = <<"*">>
       THEN [patterns |-> trimmed, matchers |-> <<>>]
       ELSE [patterns |-> trimmed, matchers |-> Matchers(trimmed)]

EnabledByFirstMatcher(namespace, config) ==
    IF Len(config.matchers) = 0
    THEN TRUE
    ELSE RegExpTest(config.matchers[1], namespace)

\* isNamespaceEnabled(namespace, config)
IsNamespaceEnabled(namespace, config) ==
    IF Len(config.matchers) = 0
    THEN TRUE
    ELSE \E i \in 1 .. Len(config.matchers) : RegExpTest(config.matchers[i], namespace)

\* configCache is a function from the cached input strings to the objects
\* cached for them; an object is its index in configs, the sequence of all
\* NamespaceConfig objects created so far.
EmptyCache == <<>>

ParseKeyedByTrimmed(cache, heap, patterns) ==
    IF Trim(patterns) \in DOMAIN cache
    THEN [cache |-> cache, heap |-> heap, config |-> cache[Trim(patterns)]]
    ELSE [cache |-> (Trim(patterns) :> (Len(heap) + 1)) @@ cache,
          heap |-> Append(heap, NewConfig(patterns)),
          config |-> Len(heap) + 1]

\* parseNamespacePatterns(patterns): the cache and the objects afterwards,
\* and the object returned.
ParseNamespacePatterns(cache, heap, patterns) ==
    IF patterns \in DOMAIN cache
    THEN [cache |-> cache, heap |-> heap, config |-> cache[patterns]]
    ELSE [cache |-> (patterns :> (Len(heap) + 1)) @@ cache,
          heap |-> Append(heap, NewConfig(patterns)),
          config |-> Len(heap) + 1]

ClearNothing(cache) == cache

\* clearNamespaceCache()
ClearNamespaceCache(cache) == EmptyCache

\* ------------------------------------------------------------------ state
VARIABLES
    now,                  \* Date.now()
    traceContextManager,  \* the process-wide instance
    call,                 \* the last call made on the store
    ret,                  \* what the last call returned: a span context, a size or Undefined
    fresh,                \* a store constructed when the instance was destroyed
    pc,                   \* per asynchronous task: the logger call it makes next
    emitted,              \* the records the logger has written
    mixinCall,            \* the last call of the mixin or of logger.setTraceContext
    configCache,          \* the namespace filter's cache
    configs,              \* the NamespaceConfig objects created so far
    nsCall,               \* the last call made on the namespace filter
    patternsInput,        \* the pattern string under test
    returned,             \* <<input, object>> for each parse since the last cache clear
    earlier,              \* the same for the parses before the last cache clear
    metadataInput,        \* the ServiceMetadata under test
    namespaceConfig,      \* logger.ts: the active NamespaceConfig object
    pinoLogger,           \* logger.ts: the global logger reference
    currentLogger,        \* logger.ts: the logger createComponentLogger makes children of
    loggers,              \* the logger objects created so far
    componentCall,        \* the last call made on logger.ts or on a logger object
    handlerRefs,          \* process-handlers: the handler functions kept for removal
    listeners,            \* the process object's listeners, per event, in order
    handlers,             \* the handler functions created so far
    processCall,          \* the last call made on process-handlers
    rawMetadata,          \* the object given to validateServiceMetadata
    validateCall,         \* the last call of validateServiceMetadata
    browserLoggers,       \* the BrowserLogger instances constructed so far
    entries,              \* the BrowserLogEntry objects built so far
    attempts,             \* the fetch requests started so far, with their outcome
    localStorage,         \* the array stored under OFFLINE_BUFFER_KEY, <<>> when absent
    online,               \* whether the remote endpoint accepts requests
    browserCall           \* the last call made on a BrowserLogger

storeVars == <<now, traceContextManager, call, ret, fresh>>
loggerVars == <<pc, emitted>>
nsVars == <<configCache, configs, nsCall, patternsInput, returned, earlier>>
componentVars ==
    <<metadataInput, namespaceConfig, pinoLogger, currentLogger, loggers, componentCall>>
processVars == <<handlerRefs, listeners, handlers, processCall>>
validationVars == <<rawMetadata, validateCall>>
browserVars == <<browserLoggers, entries, attempts, localStorage, online, browserCall>>
moduleVars == <<componentVars, processVars, validationVars, browserVars>>
nodeVars ==
    <<storeVars, loggerVars, mixinCall, nsVars, componentVars, processVars, validationVars>>
extVars == <<mixinCall, nsVars, moduleVars>>
vars == <<now, traceContextManager, call, ret, fresh, pc, emitted, mixinCall, nsVars, moduleVars>>

\* Two asynchronous tasks of one process, each logging under its own span context.
Tasks == {1, 2}
TaskContext(task) == task

NoFresh == [exists |-> FALSE]

\* removed: the key the call removed (eviction in set, expiry in get, clear).
NoCall == [op |-> "none", threadId |-> Undefined, context |-> Undefined,
           time |-> 0, removed |-> Undefined]

\* createTraceMixin called without getActiveContext.
NoProvider == [supplied |-> FALSE, throws |-> FALSE, returns |-> Undefined]

NoArg == [kind |-> "none", traceId |-> <<>>, spanId |-> <<>>, context |-> Undefined]

NoMixinCall == [op |-> "none", provider |-> NoProvider, arg |-> NoArg,
                fields |-> {}, threw |-> FALSE]

NoNsCall == [op |-> "none", patterns |-> <<>>, namespace |-> <<>>,
             config |-> Undefined, enabled |-> FALSE]

\* The trace context store and the logger methods over it, at module load.
StoreInit ==
    /\ now = 0
    /\ traceContextManager = NewManager(0)
    /\ call = NoCall
    /\ ret = Undefined
    /\ fresh = NoFresh
    /\ pc = [task \in Tasks |-> "set"]
    /\ emitted = {}
    /\ mixinCall = NoMixinCall

\* The namespace filter at module load, with the pattern string under test.
FilterInit(input) ==
    /\ configCache = EmptyCache
    /\ configs = <<>>
    /\ nsCall = NoNsCall
    /\ patternsInput = input
    /\ returned = {}
    /\ earlier = {}

\* A ServiceMetadata object: the six known fields and a further key named
\* namespace, each missing (<<>>) or holding a string (<<str>>).  NoMetadata is {}.
NoMetadata == [component |-> <<>>, service |-> <<>>, layer |-> <<>>, operation |-> <<>>,
               domain |-> <<>>, integration |-> <<>>, namespace |-> <<>>]

\* LoggerOptions: the namespaces option (missing or a pattern string) and
\* whether pino(config) throws for these options.
NoOptions == [namespaces |-> <<>>, fails |-> FALSE]

\* logger: the logger a method is called on; arg: the span context given to
\* setTraceContext; result: the logger or span context returned.
NoComponentCall == [op |-> "none", logger |-> Undefined, metadata |-> NoMetadata,
                    namespace |-> <<>>, arg |-> Undefined, options |-> NoOptions,
                    result |-> Undefined]

\* logger.ts not loaded.
ComponentInit(metadata) ==
    /\ metadataInput = metadata
    /\ namespaceConfig = Undefined
    /\ pinoLogger = Undefined
    /\ currentLogger = Undefined
    /\ loggers = <<>>
    /\ componentCall = NoComponentCall

NoProcessCall == [op |-> "none", logger |-> Undefined]

\* process-handlers at module load: handlerRefs holds null twice, and the
\* process has no listener of this module.
ProcessInit ==
    /\ handlerRefs = [uncaughtException |-> Undefined, unhandledRejection |-> Undefined]
    /\ listeners = [uncaughtException |-> <<>>, unhandledRejection |-> <<>>]
    /\ handlers = <<>>
    /\ processCall = NoProcessCall

\* KNOWN_SERVICE_FIELDS
KnownServiceFields == <<"service", "component", "operation", "layer", "domain", "integration">>

\* The argument of validateServiceMetadata: what it is (an object, null, or a
\* value of another type), for each known field and for spanContext whether
\* the key is absent, holds a valid value or an invalid one, and its further
\* entries in Object.entries order.
NoRawMetadata == [kind |-> "null",
                  known |-> [i \in 1 .. Len(KnownServiceFields) |-> "absent"],
                  spanContext |-> "absent", others |-> <<>>]

NoValidateCall == [op |-> "none", keys |-> {}]

ValidationInit(metadata) ==
    /\ rawMetadata = metadata
    /\ validateCall = NoValidateCall

\* entry: the entry a log call built; attempt: the request that settled;
\* saved: whether the settled request's logs were written to the offline
\* buffer; existing: the length of the stored array before that.
NoBrowserCall == [op |-> "none", entry |-> Undefined,
                  attempt |-> Undefined, saved |-> FALSE, existing |-> 0]

\* No BrowserLogger constructed.
BrowserNotLoaded ==
    /\ browserLoggers = <<>>
    /\ entries = <<>>
    /\ attempts = <<>>
    /\ localStorage = <<>>
    /\ online = FALSE
    /\ browserCall = NoBrowserCall

InitWith(input) ==
    /\ StoreInit
    /\ FilterInit(input)
    /\ ComponentInit(NoMetadata)
    /\ ProcessInit
    /\ ValidationInit(NoRawMetadata)
    /\ BrowserNotLoaded

Init == InitWith(<<>>)

\* The same call made on the store constructed at the last destroy.
OnFresh(newM, newRet) ==
    IF fresh.exists
    THEN [exists |-> TRUE, m |-> newM, ret |-> newRet]
    ELSE NoFresh

FreshM == IF fresh.exists THEN fresh.m ELSE NewManager(0)

\* ---------------------------------------------------------------- actions
advanceClock ==
    /\ now < MaxTime
    /\ now' = now + 1
    /\ UNCHANGED <<traceContextManager, call, ret, fresh, pc, emitted>>
    /\ UNCHANGED extVars

\* setTraceContext, getTraceContext and clearTraceContext give the effect of
\* the exported functions on the store; their callers add what else changes.
\* evictOldest, when set calls it, reads the clock again: at the same
\* millisecond as set did or at the next.
setTraceContext(threadId, context) ==
    \E tEvict \in IF Size(traceContextManager) >= MaxSize THEN {now, now + 1} ELSE {now} :
        /\ tEvict <= MaxTime
        /\ traceContextManager' = Set(traceContextManager, threadId, context, now, tEvict)
        /\ call' = [op |-> "set", threadId |-> threadId, context |-> context,
                    time |-> now, removed |-> Evicted(traceContextManager, tEvict)]
        /\ ret' = Undefined
        /\ fresh' = OnFresh(Set(FreshM, threadId, context, now, tEvict), Undefined)
        /\ now' = tEvict

getTraceContext(threadId) ==
    /\ traceContextManager' = Get(traceContextManager, threadId, now).m
    /\ ret' = Get(traceContextManager, threadId, now).ret
    /\ call' = [NoCall EXCEPT !.op = "get", !.threadId = threadId, !.time = now,
                            !.removed = Expired(traceContextManager, threadId, now)]
    /\ fresh' = OnFresh(Get(FreshM, threadId, now).m, Get(FreshM, threadId, now).ret)
    /\ UNCHANGED now

clearTraceContext(threadId) ==
    /\ traceContextManager' = Clear(traceContextManager, threadId)
    /\ ret' = Undefined
    /\ call' = [NoCall EXCEPT !.op = "clear", !.threadId = threadId,
                            !.removed = IF MapHas(traceContextManager.contexts, threadId)
                                        THEN threadId ELSE Undefined]
    /\ fresh' = OnFresh(Clear(FreshM, threadId), Undefined)
    /\ UNCHANGED now

\* Application code calling the exported functions directly.
app_setTraceContext(threadId, context) ==
    setTraceContext(threadId, context) /\ UNCHANGED loggerVars /\ UNCHANGED extVars

app_getTraceContext(threadId) ==
    getTraceContext(threadId) /\ UNCHANGED loggerVars /\ UNCHANGED extVars

app_clearTraceContext(threadId) ==
    clearTraceContext(threadId) /\ UNCHANGED loggerVars /\ UNCHANGED extVars

clearAll ==
    /\ traceContextManager' = ClearAll(traceContextManager)
    /\ ret' = Undefined
    /\ call' = [NoCall EXCEPT !.op = "clearAll"]
    /\ fresh' = OnFresh(ClearAll(FreshM), Undefined)
    /\ UNCHANGED <<now, pc, emitted>>
    /\ UNCHANGED extVars

getTraceContextStats ==
    /\ ret' = Size(traceContextManager)
    /\ call' = [NoCall EXCEPT !.op = "size"]
    /\ fresh' = OnFresh(FreshM, Size(FreshM))
    /\ UNCHANGED <<now, traceContextManager, pc, emitted>>
    /\ UNCHANGED extVars

DestroyInstance ==
    /\ traceContextManager' = Destroy(traceContextManager)
    /\ ret' = Undefined
    /\ call' = [NoCall EXCEPT !.op = "destroy"]
    /\ UNCHANGED <<now, pc, emitted>>
    /\ UNCHANGED extVars

destroyTraceContextManager ==
    /\ DestroyInstance
    /\ UNCHANGED fresh

\* destroy(), and a new TraceContextManager() constructed at the same moment
\* to compare the destroyed instance with from then on.
destroyAndConstructFresh ==
    /\ DestroyInstance
    /\ fresh' = [exists |-> TRUE, m |-> NewManager(now), ret |-> Undefined]

\* The timers phase of the event loop: every interval callback that is due runs.
cleanupTick ==
    /\ TimerDue(traceContextManager, now) \/ (fresh.exists /\ TimerDue(fresh.m, now))
    /\ traceContextManager' = RunTimer(traceContextManager, now)
    /\ fresh' = IF fresh.exists THEN [fresh EXCEPT !.m = RunTimer(fresh.m, now)] ELSE fresh
    /\ call' = [NoCall EXCEPT !.op = "sweep"]
    /\ UNCHANGED <<now, ret, pc, emitted>>
    /\ UNCHANGED extVars

StoreCalls ==
    \/ advanceClock
    \/ \E threadId \in ThreadIds, context \in SpanContexts : app_setTraceContext(threadId, context)
    \/ \E threadId \in ThreadIds : app_getTraceContext(threadId)
    \/ \E threadId \in ThreadIds : app_clearTraceContext(threadId)
    \/ clearAll
    \/ getTraceContextStats
    \/ cleanupTick

Next ==
    \/ StoreCalls
    \/ destroyTraceContextManager

Spec == Init /\ [][Next]_vars

\* Time keeps advancing and an interval callback that is due runs.
LiveSpec ==
    /\ Init
    /\ [][Next]_vars
    /\ WF_vars(advanceClock)
    /\ WF_vars(cleanupTick)

\* The store beside a store constructed fresh at each destroy.
ReuseNext ==
    \/ StoreCalls
    \/ destroyAndConstructFresh

ReuseSpec == Init /\ [][ReuseNext]_vars

\* ------------------------------------------------------------------ logger
\* getCurrentThreadId() in a Node process: process.pid.toString(), the same
\* for every task of the process.  (Outside Node it is a new random string on
\* every call, so that no lookup finds what an earlier call stored.)
Pid == 1
getCurrentThreadId == Pid

\* An optional string property of an object: <<>> when the property is
\* missing, <<str>> when it holds the string str.
Missing == <<>>
Holding(str) == <<str>>
OptionalStrings == <<Missing, Holding(""), Holding("01")>>

\* Span context n as an object: traceId and spanId are the non-empty strings
\* that n names; traceFlags and traceState run through missing, empty and
\* non-empty as n runs through AllSpanContexts.
AllSpanContexts == 1 .. (Len(OptionalStrings) * Len(OptionalStrings))
traceFlags(context) == OptionalStrings[((context - 1) % Len(OptionalStrings)) + 1]
traceState(context) ==
    OptionalStrings[(((context - 1) \div Len(OptionalStrings)) % Len(OptionalStrings)) + 1]

\* x != null && x.length > 0
NonEmpty(optionalString) == optionalString # Missing /\ optionalString[1] # ""

\* !x for an optional string: missing or empty.
Falsy(optionalString) == optionalString = Missing \/ optionalString[1] = ""

MixinRecordAnyFlags(traceContext) ==
    IF traceContext # Undefined
    THEN {<<"trace_id", traceContext>>, <<"span_id", traceContext>>}
         \cup (IF traceFlags(traceContext) # Missing
               THEN {<<"trace_flags", traceFlags(traceContext)[1]>>} ELSE {})
         \cup (IF traceState(traceContext) # Missing
               THEN {<<"trace_state", traceState(traceContext)[1]>>} ELSE {})
    ELSE {}

\* The record createTraceMixin's function adds to a log line, as a set of
\* <<field, value>> pairs: trace_id and span_id of the context in hand (span
\* context n has traceId n and spanId n), trace_flags and trace_state when
\* the context has them non-empty; the empty record when there is no context.
MixinRecord(traceContext) ==
    IF traceContext # Undefined
    THEN {<<"trace_id", traceContext>>, <<"span_id", traceContext>>}
         \cup (IF NonEmpty(traceFlags(traceContext))
               THEN {<<"trace_flags", traceFlags(traceContext)[1]>>} ELSE {})
         \cup (IF NonEmpty(traceState(traceContext))
               THEN {<<"trace_state", traceState(traceContext)[1]>>} ELSE {})
    ELSE {}

\* logger.setTraceContext(context) with a valid context.
logger_setTraceContext(task) ==
    /\ pc[task] = "set"
    /\ setTraceContext(getCurrentThreadId, TaskContext(task))
    /\ pc' = [pc EXCEPT ![task] = "log"]
    /\ UNCHANGED emitted
    /\ UNCHANGED extVars

\* A level method: the engine calls the mixin (no active-context provider)
\* and writes the record with the fields it returns.
logger_info(task) ==
    /\ pc[task] = "log"
    /\ getTraceContext(getCurrentThreadId)
    /\ emitted' = emitted \cup {[task |-> task, fields |-> MixinRecord(ret')]}
    /\ pc' = [pc EXCEPT ![task] = "clear"]
    /\ UNCHANGED extVars

\* logger.clearTraceContext().
logger_clearTraceContext(task) ==
    /\ pc[task] = "clear"
    /\ clearTraceContext(getCurrentThreadId)
    /\ pc' = [pc EXCEPT ![task] = "set"]
    /\ UNCHANGED emitted
    /\ UNCHANGED extVars

LoggerNext ==
    \/ \E task \in Tasks : logger_setTraceContext(task)
    \/ \E task \in Tasks : logger_info(task)
    \/ \E task \in Tasks : logger_clearTraceContext(task)
    \/ advanceClock
    \/ cleanupTick

LoggerSpec == Init /\ [][LoggerNext]_vars

\* ------------------------------------------------------------------- mixin
\* getActiveContext as createTraceMixin receives it, with what one call of it
\* does: not supplied; supplied and throws; supplied and returns a span
\* context or undefined.
ThrowingProvider == [supplied |-> TRUE, throws |-> TRUE, returns |-> Undefined]
Providers ==
    {NoProvider, ThrowingProvider}
    \cup {[supplied |-> TRUE, throws |-> FALSE, returns |-> traceContext] :
             traceContext \in {Undefined} \cup AllSpanContexts}

TraceMixinGivingUp(m, getActiveContext, threadId, t) ==
    IF getActiveContext.supplied
    THEN [m |-> m, threw |-> FALSE,
          fields |-> MixinRecord(IF getActiveContext.throws THEN Undefined
                                 ELSE getActiveContext.returns)]
    ELSE [m |-> Get(m, threadId, t).m, threw |-> FALSE,
          fields |-> MixinRecord(Get(m, threadId, t).ret)]

TraceMixinPreferringStore(m, getActiveContext, threadId, t) ==
    IF getActiveContext.supplied /\ ~getActiveContext.throws
       /\ getActiveContext.returns # Undefined
    THEN [m |-> m, threw |-> FALSE, fields |-> MixinRecord(getActiveContext.returns)]
    ELSE [m |-> Get(m, threadId, t).m, threw |-> FALSE,
          fields |-> MixinRecord(Get(m, threadId, t).ret)]

\* The function createTraceMixin(getCurrentThreadId, getActiveContext)
\* returns, called at time t for context id threadId: the store afterwards,
\* the record returned, and whether an exception left the function.  The
\* provider is called inside try; the catch block and the branch without a
\* provider read the store.
TraceMixin(m, getActiveContext, threadId, t) ==
    IF getActiveContext.supplied /\ ~getActiveContext.throws
    THEN [m |-> m, threw |-> FALSE, fields |-> MixinRecord(getActiveContext.returns)]
    ELSE [m |-> Get(m, threadId, t).m, threw |-> FALSE,
          fields |-> MixinRecord(Get(m, threadId, t).ret)]

\* A call of the mixin function.
traceMixin(getActiveContext) ==
    LET result == TraceMixin(traceContextManager, getActiveContext, getCurrentThreadId, now)
    IN /\ traceContextManager' = result.m
       /\ mixinCall' = [NoMixinCall EXCEPT !.op = "mixin", !.provider = getActiveContext,
                                          !.fields = result.fields, !.threw = result.threw]
       /\ call' = [NoCall EXCEPT !.op = "mixin", !.threadId = getCurrentThreadId, !.time = now]
       /\ UNCHANGED <<now, ret, fresh, pc, emitted, nsVars, moduleVars>>

\* The arguments logger.setTraceContext is called with: null, a value that
\* is not an object, and objects whose traceId and spanId are missing, empty
\* or non-empty; context names the object.
LoggerArgs ==
    {[NoArg EXCEPT !.kind = kind] : kind \in {"null", "string"}}
    \cup {[kind |-> "object", traceId |-> OptionalStrings[i], spanId |-> OptionalStrings[j],
           context |-> context] :
             i \in 1 .. Len(OptionalStrings), j \in 1 .. Len(OptionalStrings),
             context \in AllSpanContexts}

ThrowsUnlessObject(arg) == arg.kind # "object"

\* Whether logger.setTraceContext(arg) throws.
SetTraceContextThrows(arg) ==
    \/ arg.kind # "object"
    \/ Falsy(arg.traceId)
    \/ Falsy(arg.spanId)

\* logger.setTraceContext(arg), validation included.
logger_setTraceContextOf(arg) ==
    /\ IF SetTraceContextThrows(arg)
       THEN UNCHANGED storeVars
       ELSE setTraceContext(getCurrentThreadId, arg.context)
    /\ mixinCall' = [NoMixinCall EXCEPT !.op = "set", !.arg = arg,
                                       !.threw = SetTraceContextThrows(arg)]
    /\ UNCHANGED <<loggerVars, nsVars, moduleVars>>

MixinNext ==
    \/ \E arg \in LoggerArgs : logger_setTraceContextOf(arg)
    \/ \E getActiveContext \in Providers : traceMixin(getActiveContext)
    \/ app_clearTraceContext(getCurrentThreadId)
    \/ advanceClock
    \/ cleanupTick

MixinSpec == Init /\ [][MixinNext]_vars

\* -------------------------------------------------- namespace filter calls
\* The input strings of the runs that exercise the cache.
CachedPatterns == {<<"a">>, <<" ", "a">>, <<"*">>, <<"a", ",", ".", "*">>}

parseNamespacePatterns(patterns) ==
    LET result == ParseNamespacePatterns(configCache, configs, patterns)
    IN /\ Len(result.heap) <= MaxConfigs
       /\ configCache' = result.cache
       /\ configs' = result.heap
       /\ nsCall' = [NoNsCall EXCEPT !.op = "parse", !.patterns = patterns,
                                    !.config = result.config]
       /\ returned' = returned \cup {<<patterns, result.config>>}
       /\ UNCHANGED <<earlier, patternsInput, storeVars, loggerVars, mixinCall, moduleVars>>

isNamespaceEnabled(namespace, config) ==
    /\ nsCall' = [NoNsCall EXCEPT !.op = "isNamespaceEnabled", !.namespace = namespace,
                                 !.config = config,
                                 !.enabled = IsNamespaceEnabled(namespace, configs[config])]
    /\ UNCHANGED <<configCache, configs, patternsInput, returned, earlier>>
    /\ UNCHANGED <<storeVars, loggerVars, mixinCall, moduleVars>>

clearNamespaceCache ==
    /\ configCache' = ClearNamespaceCache(configCache)
    /\ nsCall' = [NoNsCall EXCEPT !.op = "clear"]
    /\ returned' = {}
    /\ earlier' = earlier \cup returned
    /\ UNCHANGED <<configs, patternsInput, storeVars, loggerVars, mixinCall, moduleVars>>

NsNext ==
    \/ \E patterns \in CachedPatterns : parseNamespacePatterns(patterns)
    \/ \E namespace \in Namespaces :
          nsCall.config # Undefined /\ isNamespaceEnabled(namespace, nsCall.config)
    \/ clearNamespaceCache

NsSpec == Init /\ [][NsNext]_vars

\* One pattern string, drawn at the start, parsed and then tested against
\* namespaces (NsNext and GlobNext: the caller tests the config it last got).
GlobInit == \E input \in Patterns : InitWith(input)

GlobNext ==
    \/ parseNamespacePatterns(patternsInput)
    \/ \E namespace \in Namespaces :
          nsCall.config # Undefined /\ isNamespaceEnabled(namespace, nsCall.config)

GlobSpec == GlobInit /\ [][GlobNext]_vars

\* ----------------------------------------------------------------- claims
Contexts == traceContextManager.contexts

\* The step is a call of set, get, clear (the call is read off call').
SetStep == call'.op = "set" /\ setTraceContext(call'.threadId, call'.context)

GetStep == call'.op = "get" /\ getTraceContext(call'.threadId)

ClearStep == call'.op = "clear" /\ clearTraceContext(call'.threadId)

MinLastAccessed(contexts) ==
    CHOOSE t \in {contexts[i].lastAccessed : i \in 1 .. Len(contexts)} :
        \A i \in 1 .. Len(contexts) : t <= contexts[i].lastAccessed

\* C1: after any sequence of calls, sweep ticks and clock advances, size()
\* never exceeds maxSize.
C1_SizeNeverExceedsMaxSize == Size(traceContextManager) <= MaxSize

\* C2: whenever the capacity check of set evicts an entry, that entry's
\* lastAccessed is the minimum over the entries stored at that moment, and
\* no other entry disappears during the set.
C2_EvictsLeastRecentlyAccessed ==
    [][SetStep =>
        /\ call'.removed # Undefined =>
              /\ MapHas(Contexts, call'.removed)
              /\ MapGet(Contexts, call'.removed).lastAccessed = MinLastAccessed(Contexts)
        /\ \A key \in Keys(Contexts) \ Keys(Contexts') :
              /\ key = call'.removed
              /\ MapGet(Contexts, key).lastAccessed = MinLastAccessed(Contexts)]_vars

\* An eviction has just removed one entry of a full store and left another.
C2_Witness ==
    /\ call.op = "set"
    /\ call.removed # Undefined
    /\ ~MapHas(Contexts, call.removed)
    /\ \E key \in Keys(Contexts) : key # call.threadId

\* C3: get(id) directly after set(id, ctx), no more than ttlMs later, returns
\* ctx, also when the store was at capacity.
C3_GetAfterSetReturnsContext ==
    [][/\ call.op = "set"
       /\ GetStep
       /\ call'.threadId = call.threadId
       /\ now - call.time <= TtlMs
       => ret' = call.context]_vars

\* get has just returned the context of an entry that was set at this clock
\* reading into a store at capacity.
C3_Witness ==
    /\ call.op = "get"
    /\ ret # Undefined
    /\ MapHas(Contexts, call.threadId)
    /\ MapGet(Contexts, call.threadId).timestamp = now
    /\ MapGet(Contexts, call.threadId).context = ret
    /\ Size(traceContextManager) >= MaxSize

\* C4: an entry carries the context and the time of the most recent set of
\* its id, whatever reads happened since; get(id) later than ttlMs after that
\* time returns absent and removes the entry if it is still stored (size()
\* drops by one), and get(id) up to and including ttlMs after it returns the
\* context of the stored entry.
C4_GetNeverReturnsExpired ==
    [][/\ \A threadId \in Keys(Contexts') :
             \/ /\ MapHas(Contexts, threadId)
                /\ MapGet(Contexts', threadId).timestamp = MapGet(Contexts, threadId).timestamp
                /\ MapGet(Contexts', threadId).context = MapGet(Contexts, threadId).context
             \/ /\ SetStep
                /\ call'.threadId = threadId
                /\ MapGet(Contexts', threadId).timestamp = now
                /\ MapGet(Contexts', threadId).context = call'.context
       /\ GetStep =>
             IF MapHas(Contexts, call'.threadId)
             THEN IF now > MapGet(Contexts, call'.threadId).timestamp + TtlMs
                  THEN /\ ret' = Undefined
                       /\ ~MapHas(Contexts', call'.threadId)
                       /\ Size(traceContextManager') = Size(traceContextManager) - 1
                  ELSE /\ ret' = MapGet(Contexts, call'.threadId).context
                       /\ MapHas(Contexts', call'.threadId)
             ELSE ret' = Undefined]_vars

\* get has just found an entry older than ttlMs, removed it and returned absent.
C4_Witness ==
    /\ call.op = "get"
    /\ call.removed = call.threadId
    /\ call.removed # Undefined
    /\ ret = Undefined
    /\ ~MapHas(Contexts, call.threadId)

\* C5: after destroy() the store behaves as a freshly constructed one: every
\* later get and size() returns what it returns on a store constructed at the
\* moment of the destroy and given the same calls at the same clock readings.
C5_DestroyedEqualsFresh == fresh.exists => ret = fresh.ret

\* An entry of threadId is stored and older than ttlMs.
Stale(threadId) ==
    /\ MapHas(Contexts, threadId)
    /\ IsExpired(MapGet(Contexts, threadId), now)

\* C6: in every reachable state, an entry older than ttlMs does not stay in
\* the store for ever, read or not: the periodic sweep removes it.
C6_StaleEntryEventuallySwept ==
    \A threadId \in ThreadIds : Stale(threadId) ~> ~Stale(threadId)

\* C7: set(id, ctx) for an id that is already stored leaves size() as it was
\* and removes no other id's entry.
C7_OverwriteKeepsOthers ==
    [][SetStep /\ MapHas(Contexts, call'.threadId) =>
          /\ Size(traceContextManager') = Size(traceContextManager)
          /\ Keys(Contexts) \subseteq Keys(Contexts')]_vars

NoEntry == [key |-> Undefined, context |-> Undefined, timestamp |-> 0, lastAccessed |-> 0]

EntryOf(contexts, key) ==
    IF MapHas(contexts, key) THEN MapGet(contexts, key) ELSE NoEntry

\* C8: set, get and clear on one id never change whether another id is
\* present nor the span context get returns for it.
C8_IdsIndependent ==
    [][SetStep \/ GetStep \/ ClearStep =>
          \A other \in ThreadIds \ {call'.threadId} :
              /\ MapHas(Contexts', other) = MapHas(Contexts, other)
              /\ EntryOf(Contexts', other).context = EntryOf(Contexts, other).context
              /\ EntryOf(Contexts', other).timestamp = EntryOf(Contexts, other).timestamp]_vars

\* C8 as amended: get and clear on one id leave every other id's entry as it
\* was; set on one id does too, except that when the store already holds
\* maxSize entries or more the one entry it evicts may be another id's, and
\* then that entry's lastAccessed is the minimum.
C8_IdsIndependentButEviction ==
    [][/\ GetStep \/ ClearStep =>
             \A other \in ThreadIds \ {call'.threadId} :
                 EntryOf(Contexts', other) = EntryOf(Contexts, other)
       /\ SetStep =>
             \A other \in ThreadIds \ {call'.threadId} :
                 \/ EntryOf(Contexts', other) = EntryOf(Contexts, other)
                 \/ /\ Size(traceContextManager) >= MaxSize
                    /\ other = call'.removed
                    /\ MapGet(Contexts, other).lastAccessed = MinLastAccessed(Contexts)
                    /\ ~MapHas(Contexts', other)
                    /\ \A third \in ThreadIds \ {call'.threadId, other} :
                          EntryOf(Contexts', third) = EntryOf(Contexts, third)]_vars

\* get has just read one id while an entry of another id, last accessed
\* earlier and by now older than ttlMs, is still stored.
C8_Witness ==
    /\ call.op = "get"
    /\ ret # Undefined
    /\ \E other \in Keys(Contexts) \ {call.threadId} : Stale(other)

\* C9: every record a task emits carries the trace context that task set,
\* or none, however the two tasks' logger calls interleave.
C9_RecordCarriesOwnContext ==
    \A record \in emitted :
        \A field \in record.fields :
            field[1] = "trace_id" => field[2] = TaskContext(record.task)

\* C10: clear(id) removes id's entry and nothing else: every other id's
\* presence, context, timestamp and lastAccessed are as before, and get of
\* another id returns what it would have returned before the clear.
C10_ClearRemovesOnlyId ==
    [][ClearStep =>
          /\ ~MapHas(Contexts', call'.threadId)
          /\ \A other \in ThreadIds \ {call'.threadId} :
                /\ EntryOf(Contexts', other) = EntryOf(Contexts, other)
                /\ Get(traceContextManager', other, now).ret
                       = Get(traceContextManager, other, now).ret]_vars

\* clear has just removed a stored id from a store that still holds another.
C10_Witness ==
    /\ call.op = "clear"
    /\ call.removed = call.threadId
    /\ call.removed # Undefined
    /\ Size(traceContextManager) >= 1
    /\ \E other \in Keys(Contexts) : Get(traceContextManager, other, now).ret # Undefined

\* C11: get(id) returns absent for an id that is not stored, and such a get
\* leaves the store unchanged; an id is not stored when it was never set or
\* was cleared after its last set: clear(id) leaves id absent, clearAll and
\* destroy leave every id absent, and only set(id) makes id present.
C11_GetOfUnsetOrClearedIsAbsent ==
    [][/\ (GetStep /\ ~MapHas(Contexts, call'.threadId))
           => (ret' = Undefined /\ traceContextManager' = traceContextManager)
       /\ call'.op = "clear" => ~MapHas(Contexts', call'.threadId)
       /\ call'.op \in {"clearAll", "destroy"} => Contexts' = <<>>
       /\ \A threadId \in ThreadIds :
             (MapHas(Contexts', threadId) /\ ~MapHas(Contexts, threadId))
                 => (SetStep /\ call'.threadId = threadId)]_vars

\* A get of an id that is not stored, while another id is stored.
C11_Witness ==
    /\ call.op = "get"
    /\ ret = Undefined
    /\ call.removed = Undefined
    /\ ~MapHas(Contexts, call.threadId)
    /\ Len(Contexts) > 0

\* The step is a call of the mixin function, of logger.setTraceContext.
MixinStep == mixinCall'.op = "mixin" /\ traceMixin(mixinCall'.provider)

LoggerSetStep == mixinCall'.op = "set" /\ logger_setTraceContextOf(mixinCall'.arg)

FieldsNamed(fields, name) == {field \in fields : field[1] = name}

TraceFieldNames == {"trace_id", "span_id", "trace_flags", "trace_state"}

\* C12: a mixin created without a provider returns, when the store holds an
\* unexpired context for the current id, exactly trace_id and span_id of that
\* context, plus trace_flags iff its traceFlags is a non-empty string and
\* trace_state iff its traceState is a non-empty string; with no such
\* context it returns the empty record.
C12_MixinFieldsOfStoredContext ==
    [][(MixinStep /\ ~mixinCall'.provider.supplied) =>
          LET fields == mixinCall'.fields
              context == EntryOf(Contexts, getCurrentThreadId).context
          IN IF MapHas(Contexts, getCurrentThreadId) /\ ~Stale(getCurrentThreadId)
             THEN /\ \A field \in fields : field[1] \in TraceFieldNames
                  /\ FieldsNamed(fields, "trace_id") = {<<"trace_id", context>>}
                  /\ FieldsNamed(fields, "span_id") = {<<"span_id", context>>}
                  /\ (FieldsNamed(fields, "trace_flags") # {})
                        <=> (traceFlags(context) \notin {Missing, Holding("")})
                  /\ \A field \in FieldsNamed(fields, "trace_flags") :
                        Holding(field[2]) = traceFlags(context)
                  /\ (FieldsNamed(fields, "trace_state") # {})
                        <=> (traceState(context) \notin {Missing, Holding("")})
                  /\ \A field \in FieldsNamed(fields, "trace_state") :
                        Holding(field[2]) = traceState(context)
             ELSE fields = {}]_vars

\* The provider-less mixin has returned trace_state and no trace_flags for a
\* stored context whose traceFlags is the empty string.
C12_Witness ==
    /\ mixinCall.op = "mixin"
    /\ ~mixinCall.provider.supplied
    /\ MapHas(Contexts, getCurrentThreadId)
    /\ traceFlags(EntryOf(Contexts, getCurrentThreadId).context) = Holding("")
    /\ FieldsNamed(mixinCall.fields, "trace_flags") = {}
    /\ FieldsNamed(mixinCall.fields, "trace_state") # {}
    /\ FieldsNamed(mixinCall.fields, "trace_id") # {}

\* C13: when the provider throws, no exception leaves the mixin, and the
\* mixin returns (and does to the store) what a mixin without provider does
\* for the same store and id.
C13_ThrowingProviderFallsBack ==
    [][(MixinStep /\ mixinCall'.provider.supplied /\ mixinCall'.provider.throws) =>
          LET providerLess ==
                  TraceMixin(traceContextManager, NoProvider, getCurrentThreadId, now)
          IN /\ ~mixinCall'.threw
             /\ mixinCall'.fields = providerLess.fields
             /\ traceContextManager' = providerLess.m]_vars

\* The provider threw and the mixin returned the stored context's fields.
C13_Witness ==
    /\ mixinCall.op = "mixin"
    /\ mixinCall.provider.throws
    /\ ~mixinCall.threw
    /\ MapHas(Contexts, getCurrentThreadId)
    /\ <<"trace_id", EntryOf(Contexts, getCurrentThreadId).context>> \in mixinCall.fields

\* C14: when the provider is supplied and returns without throwing, the
\* record comes from its return value alone and the store is not read (no
\* lastAccessed changes, no entry is removed); when it returns nothing the
\* record is empty, whatever the store holds.  The store is read only when
\* the provider throws or is not supplied.
C14_ProviderResultUsedAlone ==
    [][MixinStep =>
          LET provider == mixinCall'.provider
              fields == mixinCall'.fields
          IN /\ (provider.supplied /\ ~provider.throws) =>
                   /\ traceContextManager' = traceContextManager
                   /\ provider.returns = Undefined => fields = {}
                   /\ provider.returns # Undefined =>
                         /\ FieldsNamed(fields, "trace_id") = {<<"trace_id", provider.returns>>}
                         /\ FieldsNamed(fields, "span_id") = {<<"span_id", provider.returns>>}
                         /\ fields = MixinRecord(provider.returns)
             /\ traceContextManager' # traceContextManager =>
                   (~provider.supplied \/ provider.throws)]_vars

\* The provider returned nothing while the store held an unexpired context
\* for the current id, and the mixin returned the empty record.
C14_Witness ==
    /\ mixinCall.op = "mixin"
    /\ mixinCall.provider.supplied
    /\ ~mixinCall.provider.throws
    /\ mixinCall.provider.returns = Undefined
    /\ mixinCall.fields = {}
    /\ MapHas(Contexts, getCurrentThreadId)
    /\ ~Stale(getCurrentThreadId)

\* C15: logger.setTraceContext(ctx) throws and leaves the store unchanged
\* when ctx is null or not an object or its traceId or spanId is missing or
\* empty; otherwise it does not throw and the store holds ctx under the
\* current context id.
C15_SetTraceContextValidates ==
    [][LoggerSetStep =>
          LET arg == mixinCall'.arg
          IN IF \/ arg.kind \in {"null", "string"}
                \/ arg.traceId \in {Missing, Holding("")}
                \/ arg.spanId \in {Missing, Holding("")}
             THEN mixinCall'.threw /\ traceContextManager' = traceContextManager
             ELSE /\ ~mixinCall'.threw
                  /\ MapHas(Contexts', getCurrentThreadId)
                  /\ EntryOf(Contexts', getCurrentThreadId).context = arg.context
                  /\ EntryOf(Contexts', getCurrentThreadId).timestamp = now]_vars

\* logger.setTraceContext has thrown for an object with an empty spanId
\* while the store held a context.
C15_Witness ==
    /\ mixinCall.op = "set"
    /\ mixinCall.threw
    /\ mixinCall.arg.kind = "object"
    /\ mixinCall.arg.traceId = Holding("01")
    /\ mixinCall.arg.spanId = Holding("")
    /\ Len(Contexts) > 0

\* C16: between two consecutive clearNamespaceCache calls, two calls of
\* parseNamespacePatterns return the identical object when their input
\* strings are identical (untrimmed), and different objects when the input
\* strings differ, even if only in surrounding white space.
C16_SameInstanceIffSameInput ==
    \A first \in returned, second \in returned :
        (first[1] = second[1]) <=> (first[2] = second[2])

\* Since the last clear, "a" and " a" were parsed and "a" was parsed again
\* after " a": two objects, one per input.
C16_Witness ==
    /\ {<<"a">>, <<" ", "a">>} \subseteq {pair[1] : pair \in returned}
    /\ Cardinality(returned) = Cardinality({pair[1] : pair \in returned})
    /\ nsCall.op = "parse"
    /\ nsCall.patterns = <<"a">>
    /\ nsCall.config < Len(configs)

\* C17: after clearNamespaceCache(), parseNamespacePatterns(s) for an s
\* parsed before the clear returns a new object, with the same patterns
\* field and the same isNamespaceEnabled result for every namespace as the
\* object returned before.
C17_ReparseGivesNewEquivalentConfig ==
    \A new \in returned, old \in earlier :
        new[1] = old[1] =>
            /\ new[2] # old[2]
            /\ configs[new[2]].patterns = configs[old[2]].patterns
            /\ \A namespace \in Namespaces :
                  IsNamespaceEnabled(namespace, configs[new[2]])
                      = IsNamespaceEnabled(namespace, configs[old[2]])

\* A pattern with matchers was parsed before and after a clear.
C17_Witness ==
    \E new \in returned, old \in earlier :
        /\ new[1] = old[1]
        /\ Len(configs[new[2]].matchers) > 0
        /\ nsCall.op = "parse"
        /\ nsCall.config = new[2]

\* The input is white space only; white space around exactly one "*".
OnlyWhiteSpace(str) == \A i \in 1 .. Len(str) : IsWhiteSpace(str[i])

OneStarInWhiteSpace(str) ==
    \E i \in 1 .. Len(str) :
        /\ str[i] = "*"
        /\ \A j \in (1 .. Len(str)) \ {i} : IsWhiteSpace(str[j])

\* C18: for every input whose trimmed form is "" or "*", the config parsed
\* has an empty matcher list and patterns equal to the trimmed input, and
\* isNamespaceEnabled is true under it for every namespace, "" included.
C18_EmptyOrStarEnablesAll ==
    (nsCall.op # "none" /\ (OnlyWhiteSpace(patternsInput) \/ OneStarInWhiteSpace(patternsInput)))
        => /\ configs[nsCall.config].matchers = <<>>
           /\ configs[nsCall.config].patterns
                 = (IF OnlyWhiteSpace(patternsInput) THEN <<>> ELSE <<"*">>)
           /\ nsCall.op = "isNamespaceEnabled" => nsCall.enabled

\* The empty namespace was tested under the config parsed from " *".
C18_Witness ==
    /\ nsCall.op = "isNamespaceEnabled"
    /\ patternsInput = <<" ", "*">>
    /\ nsCall.namespace = <<>>
    /\ nsCall.enabled

\* The trimmed non-empty comma-separated segments of a pattern string: the
\* substrings that hold no comma, begin and end with a character that is not
\* white space, and have only white space between them and the nearest comma
\* (or end of the string) on either side.
TrimmedSegments(str) ==
    {SubSeq(str, from, to) : <<from, to>> \in
        {range \in (1 .. Len(str)) \X (1 .. Len(str)) :
            /\ range[1] <= range[2]
            /\ \A i \in range[1] .. range[2] : str[i] # ","
            /\ ~IsWhiteSpace(str[range[1]])
            /\ ~IsWhiteSpace(str[range[2]])
            /\ \A i \in 1 .. (range[1] - 1) :
                  (\A j \in i .. (range[1] - 1) : str[j] # ",") => IsWhiteSpace(str[i])
            /\ \A i \in (range[2] + 1) .. Len(str) :
                  (\A j \in (range[2] + 1) .. i : str[j] # ",") => IsWhiteSpace(str[i])}}

\* Glob matching of a whole string: * stands for any sequence of characters,
\* every other character for itself.
RECURSIVE GlobMatches(_, _)
GlobMatches(glob, str) ==
    IF Len(glob) = 0 THEN Len(str) = 0
    ELSE IF glob[1] = "*"
         THEN \/ GlobMatches(Tail(glob), str)
              \/ Len(str) > 0 /\ GlobMatches(glob, Tail(str))
         ELSE /\ Len(str) > 0
              /\ str[1] = glob[1]
              /\ GlobMatches(Tail(glob), Tail(str))

NoLineTerminator(str) == \A i \in 1 .. Len(str) : str[i] \notin LineTerminators

\* C19: for a pattern string with at least one segment that is non-empty
\* once trimmed, and a namespace without line terminators,
\* isNamespaceEnabled(namespace, parseNamespacePatterns(patterns)) is true
\* iff some trimmed non-empty segment glob-matches the whole namespace, with
\* * for any sequence and every other character, regular expression
\* metacharacters included, for itself.
C19_EnabledIffSomeSegmentGlobMatches ==
    (/\ nsCall.op = "isNamespaceEnabled"
     /\ TrimmedSegments(patternsInput) # {}
     /\ NoLineTerminator(nsCall.namespace))
        => (nsCall.enabled
              <=> \E segment \in TrimmedSegments(patternsInput) :
                      GlobMatches(segment, nsCall.namespace))

\* A namespace with a dot and a plus was enabled by a pattern that holds
\* both, and a star, behind a first segment that does not match.
C19_Witness ==
    /\ nsCall.op = "isNamespaceEnabled"
    /\ nsCall.enabled
    /\ patternsInput = <<"a", ",", ".", "*">>
    /\ nsCall.namespace = <<".", "+">>

\* The pattern strings made of the comma-separated segments of str in
\* another order, or with one segment repeated.
RECURSIVE Join(_, _)
Join(strs, separator) ==
    IF Len(strs) = 0 THEN <<>>
    ELSE IF Len(strs) = 1 THEN strs[1]
    ELSE strs[1] \o <<separator>> \o Join(Tail(strs), separator)

Rearrangements(str) ==
    LET segments == Split(str, ",")
    IN {Join([i \in 1 .. Len(segments) |-> segments[order[i]]], ",") :
            order \in Permutations(1 .. Len(segments))}
       \cup {Join(Append(segments, segments[i]), ",") : i \in 1 .. Len(segments)}

\* C20: the result of isNamespaceEnabled is the same, for every namespace,
\* under every permutation or duplication of the comma-separated segments of
\* the pattern string.
C20_OrderAndMultiplicityIrrelevant ==
    nsCall.op = "isNamespaceEnabled" =>
        \A rearranged \in Rearrangements(patternsInput) :
            IsNamespaceEnabled(nsCall.namespace, NewConfig(rearranged)) = nsCall.enabled

\* ------------------------------------------------------ component loggers
\* What a metadata field holds: nothing, the empty string or one character.
FieldValues(char) == {Missing, Holding(<<>>), Holding(<<char>>)}

AllMetadata ==
    {[component |-> component, service |-> service, layer |-> layer,
      operation |-> operation, domain |-> domain, integration |-> integration,
      namespace |-> namespace] :
        component \in FieldValues("c"), service \in FieldValues("s"),
        layer \in FieldValues("l"), operation \in FieldValues("o"),
        domain \in FieldValues("d"), integration \in FieldValues("i"),
        namespace \in FieldValues("n")}

\* x != null && x.length > 0
HasText(field) == field # Missing /\ Len(field[1]) > 0

BuildNamespaceUnderPrimary(metadata) ==
    LET primary == IF HasText(metadata.component) THEN <<metadata.component[1]>>
                   ELSE IF HasText(metadata.service) THEN <<metadata.service[1]>>
                   ELSE <<>>
        secondary == IF Len(primary) = 0 THEN <<>>
                     ELSE IF HasText(metadata.layer) THEN <<metadata.layer[1]>>
                     ELSE IF HasText(metadata.operation) THEN <<metadata.operation[1]>>
                     ELSE IF HasText(metadata.domain) THEN <<metadata.domain[1]>>
                     ELSE <<>>
        suffix == IF HasText(metadata.integration) THEN <<metadata.integration[1]>> ELSE <<>>
    IN Join(primary \o secondary \o suffix, ":")

\* buildNamespace(metadata): the parts pushed, joined by ':'.
BuildNamespace(metadata) ==
    LET primary == IF HasText(metadata.component) THEN <<metadata.component[1]>>
                   ELSE IF HasText(metadata.service) THEN <<metadata.service[1]>>
                   ELSE <<>>
        secondary == IF HasText(metadata.layer) THEN <<metadata.layer[1]>>
                     ELSE IF HasText(metadata.operation) THEN <<metadata.operation[1]>>
                     ELSE IF HasText(metadata.domain) THEN <<metadata.domain[1]>>
                     ELSE <<>>
        suffix == IF HasText(metadata.integration) THEN <<metadata.integration[1]>> ELSE <<>>
    IN Join(primary \o secondary \o suffix, ":")

buildNamespace(metadata) ==
    /\ componentCall' = [NoComponentCall EXCEPT !.op = "buildNamespace",
                                               !.metadata = metadata,
                                               !.namespace = BuildNamespace(metadata)]
    /\ UNCHANGED <<metadataInput, namespaceConfig, pinoLogger, currentLogger, loggers>>
    /\ UNCHANGED <<storeVars, loggerVars, mixinCall, nsVars, processVars, validationVars, browserVars>>

\* A logger object: a pino logger with its bound fields, or the no-op
\* logger.  A logger is its index in loggers.  Loading logger.ts creates the
\* base logger (initializeBaseLogger) and the no-op logger.
BaseLogger == 1
NoOpLogger == 2
LoadedLoggers == <<[kind |-> "pino", parent |-> Undefined, bindings |-> NoMetadata],
                   [kind |-> "noop", parent |-> Undefined, bindings |-> NoMetadata]>>

\* Bound fields of a child: the parent's, overridden by the child's own.
Merge(parentBindings, bindings) ==
    [key \in DOMAIN parentBindings |->
        IF bindings[key] # Missing THEN bindings[key] ELSE parentBindings[key]]

\* logger.child(bindings): the logger objects afterwards and the logger
\* returned; the no-op logger's child is the no-op logger itself.
Child(heap, logger, bindings) ==
    IF heap[logger].kind = "noop"
    THEN [heap |-> heap, logger |-> NoOpLogger]
    ELSE [heap |-> Append(heap, [kind |-> "pino", parent |-> logger,
                                 bindings |-> Merge(heap[logger].bindings, bindings)]),
          logger |-> Len(heap) + 1]

MetadataFirst(metadata, namespace) ==
    IF metadata.namespace # Missing
    THEN metadata
    ELSE [metadata EXCEPT !.namespace = Holding(namespace)]

\* { ...metadata, namespace }
ComponentBindings(metadata, namespace) ==
    [metadata EXCEPT !.namespace = Holding(namespace)]

\* Variant of CreateComponentLogger: a configuration that is no longer in the
\* cache counts as no configuration.
CreateThroughCache(heap, current, config, metadata) ==
    IF /\ \E patterns \in DOMAIN configCache : configs[configCache[patterns]] = config
       /\ ~IsNamespaceEnabled(BuildNamespace(metadata), config)
    THEN [heap |-> heap, logger |-> NoOpLogger]
    ELSE Child(heap, current, ComponentBindings(metadata, BuildNamespace(metadata)))

CreateUnlessEmptyNamespace(heap, current, config, metadata) ==
    IF Len(BuildNamespace(metadata)) = 0
    THEN [heap |-> heap, logger |-> NoOpLogger]
    ELSE Child(heap, current, ComponentBindings(metadata, BuildNamespace(metadata)))

\* createComponentLogger(metadata) with currentLogger = current and
\* namespaceConfig = config: the logger objects afterwards and the logger returned.
CreateComponentLogger(heap, current, config, metadata) ==
    IF ~IsNamespaceEnabled(BuildNamespace(metadata), config)
    THEN [heap |-> heap, logger |-> NoOpLogger]
    ELSE Child(heap, current, ComponentBindings(metadata, BuildNamespace(metadata)))

createComponentLogger(metadata) ==
    LET created == CreateComponentLogger(loggers, currentLogger,
                                         configs[namespaceConfig], metadata)
    IN /\ Len(created.heap) <= MaxLoggers
       /\ loggers' = created.heap
       /\ componentCall' = [NoComponentCall EXCEPT !.op = "createComponentLogger",
                                                  !.metadata = metadata,
                                                  !.result = created.logger]
       /\ UNCHANGED <<metadataInput, namespaceConfig, pinoLogger, currentLogger>>
       /\ UNCHANGED <<storeVars, loggerVars, mixinCall, nsVars, processVars, validationVars, browserVars>>

\* The pattern strings given as namespaces option or to setNamespaceConfig.
ActivePatterns ==
    {<<"*">>, <<"c", ":", "*">>, <<"c", ":", "l", ",", "s">>, <<" ", ",">>, <<"i">>}

\* logger.ts loaded (namespaceConfig = parseNamespacePatterns('*'),
\* currentLogger = pinoLogger = the base logger) and then
\* setNamespaceConfig(patterns) called.
LoadedWith(patterns, metadata) ==
    LET atLoad == ParseNamespacePatterns(EmptyCache, <<>>, <<"*">>)
        active == ParseNamespacePatterns(atLoad.cache, atLoad.heap, patterns)
    IN /\ configCache = active.cache
       /\ configs = active.heap
       /\ nsCall = [NoNsCall EXCEPT !.op = "parse", !.patterns = patterns,
                                   !.config = active.config]
       /\ patternsInput = patterns
       /\ returned = {<<(<<"*">>), atLoad.config>>, <<patterns, active.config>>}
       /\ earlier = {}
       /\ metadataInput = metadata
       /\ namespaceConfig = active.config
       /\ pinoLogger = BaseLogger
       /\ currentLogger = BaseLogger
       /\ loggers = LoadedLoggers
       /\ componentCall = NoComponentCall

\* One metadata object and one active pattern string, drawn at the start.
BuildInit ==
    /\ StoreInit
    /\ \E patterns \in ActivePatterns, metadata \in AllMetadata :
          LoadedWith(patterns, metadata)
    /\ ProcessInit
    /\ ValidationInit(NoRawMetadata)
    /\ BrowserNotLoaded

BuildNext ==
    \/ buildNamespace(metadataInput)
    \/ createComponentLogger(metadataInput)

BuildSpec == BuildInit /\ [][BuildNext]_vars

\* The parts of a namespace: the first of the given fields that has text, if any.
FirstWithText(fields) ==
    IF \E i \in 1 .. Len(fields) : HasText(fields[i])
    THEN <<fields[CHOOSE i \in 1 .. Len(fields) :
                     HasText(fields[i]) /\ \A j \in 1 .. (i - 1) : ~HasText(fields[j])][1]>>
    ELSE <<>>

\* C21: buildNamespace returns the colon-join of: component if non-empty
\* else service if non-empty; layer if non-empty else operation if non-empty
\* else domain if non-empty, with or without a primary part; integration if
\* non-empty.  The result has no empty segment and is the empty string when
\* no part exists.
C21_BuildNamespaceJoinsByPriority ==
    componentCall.op = "buildNamespace" =>
        LET metadata == metadataInput
            parts == FirstWithText(<<metadata.component, metadata.service>>)
                     \o FirstWithText(<<metadata.layer, metadata.operation, metadata.domain>>)
                     \o FirstWithText(<<metadata.integration>>)
            namespace == componentCall.namespace
        IN /\ Len(parts) = 0 => namespace = <<>>
           /\ Len(parts) > 0 =>
                 /\ Split(namespace, ":") = parts
                 /\ \A i \in 1 .. Len(parts) : Len(parts[i]) > 0
           /\ Len(namespace) = 0 <=> Len(parts) = 0

\* buildNamespace gave "o:i" for a metadata without component and service,
\* with an empty layer, an operation, a domain and an integration.
C21_Witness ==
    /\ componentCall.op = "buildNamespace"
    /\ componentCall.namespace = <<"o", ":", "i">>
    /\ ~HasText(metadataInput.component)
    /\ ~HasText(metadataInput.service)
    /\ metadataInput.layer = Holding(<<>>)
    /\ HasText(metadataInput.domain)

\* The step is a call of createComponentLogger.
CreateStep ==
    /\ componentCall'.op = "createComponentLogger"
    /\ createComponentLogger(componentCall'.metadata)

\* C22: createComponentLogger returns the shared no-op logger iff
\* isNamespaceEnabled(buildNamespace(metadata), active config) is false; a
\* disabled call creates no logger, an enabled call returns a pino logger.
C22_NoOpIffNamespaceDisabled ==
    [][CreateStep =>
          LET enabled == IsNamespaceEnabled(BuildNamespace(componentCall'.metadata),
                                            configs[namespaceConfig])
              logger == componentCall'.result
          IN /\ (logger = NoOpLogger) <=> ~enabled
             /\ ~enabled => loggers' = loggers
             /\ enabled => (loggers'[logger].kind = "pino" /\ logger > Len(loggers))]_vars

\* Under "c:l,s" the metadata whose namespace is "c:o" got the no-op logger.
C22_Witness ==
    /\ componentCall.op = "createComponentLogger"
    /\ componentCall.result = NoOpLogger
    /\ configs[namespaceConfig].patterns = <<"c", ":", "l", ",", "s">>
    /\ BuildNamespace(componentCall.metadata) = <<"c", ":", "o">>

KnownFields == {"component", "service", "layer", "operation", "domain", "integration"}

\* C24: an enabled component logger is a new child logger whose bound
\* fields are the metadata's, with the field namespace equal to
\* buildNamespace(metadata) also when the metadata has a key namespace.
C24_ChildBoundToMetadataAndNamespace ==
    [][(CreateStep /\ componentCall'.result # NoOpLogger) =>
          LET metadata == componentCall'.metadata
              bindings == loggers'[componentCall'.result].bindings
          IN /\ componentCall'.result = Len(loggers) + 1
             /\ \A field \in KnownFields : bindings[field] = metadata[field]
             /\ bindings.namespace = Holding(BuildNamespace(metadata))]_vars

\* A child was created for a metadata with its own namespace key, and is
\* bound to the computed namespace "s:d".
C24_Witness ==
    /\ componentCall.op = "createComponentLogger"
    /\ componentCall.result # NoOpLogger
    /\ componentCall.metadata.namespace = Holding(<<"n">>)
    /\ loggers[componentCall.result].bindings.namespace = Holding(<<"s", ":", "d">>)

\* ------------------------------------------------------- logger.ts calls
\* The metadata objects and options of the runs that follow logger.ts
\* through initialisation, configuration and component loggers.
ComponentMetadata ==
    {[NoMetadata EXCEPT !.component = Holding(<<"c">>), !.layer = Holding(<<"l">>)],
     [NoMetadata EXCEPT !.service = Holding(<<"s">>), !.namespace = Holding(<<"n">>)]}

ConfiguredPatterns == {<<"*">>, <<"c", ":", "*">>}

InitOptions ==
    {[namespaces |-> namespaces, fails |-> fails] :
        namespaces \in {Missing} \cup {Holding(patterns) : patterns \in ConfiguredPatterns},
        fails \in BOOLEAN}

\* A level method of a logger called with the given fields: nothing for the
\* no-op logger; for a pino logger the mixin reads the store under the
\* current id and the record carries its fields.
logVia(logger, fields) ==
    IF loggers[logger].kind = "noop"
    THEN UNCHANGED <<storeVars, emitted>>
    ELSE /\ getTraceContext(getCurrentThreadId)
         /\ emitted' = emitted \cup {[task |-> Undefined,
                                       fields |-> MixinRecord(ret') \cup fields]}

\* The fields a failed initLogger logs through the existing logger.
InitFailureFields == {<<"msg", "Failed to initialize logger">>}

\* initLogger(options) with pinoLogger = current: the logger objects and
\* pinoLogger afterwards and the logger returned.
InitLogger(heap, current, options) ==
    IF options.fails
    THEN [heap |-> heap, pinoLogger |-> current, logger |-> BaseLogger]
    ELSE [heap |-> Append(heap, [kind |-> "pino", parent |-> Undefined,
                                 bindings |-> NoMetadata]),
          pinoLogger |-> Len(heap) + 1, logger |-> Len(heap) + 1]

initLogger(options) ==
    LET done == InitLogger(loggers, pinoLogger, options)
    IN /\ Len(done.heap) <= MaxLoggers
       /\ loggers' = done.heap
       /\ pinoLogger' = done.pinoLogger
       /\ IF options.fails
          THEN logVia(pinoLogger, InitFailureFields)
          ELSE UNCHANGED <<storeVars, emitted>>
       /\ componentCall' = [NoComponentCall EXCEPT !.op = "initLogger", !.options = options,
                                                  !.result = done.logger]
       /\ UNCHANGED <<metadataInput, namespaceConfig, currentLogger>>
       /\ UNCHANGED <<pc, mixinCall, nsVars, processVars, validationVars, browserVars>>

\* setNamespaceConfig(namespaces)
setNamespaceConfig(namespaces) ==
    LET parsed == ParseNamespacePatterns(configCache, configs, namespaces)
    IN /\ Len(parsed.heap) <= MaxConfigs
       /\ configCache' = parsed.cache
       /\ configs' = parsed.heap
       /\ namespaceConfig' = parsed.config
       /\ nsCall' = [NoNsCall EXCEPT !.op = "parse", !.patterns = namespaces,
                                    !.config = parsed.config]
       /\ returned' = returned \cup {<<namespaces, parsed.config>>}
       /\ componentCall' = [NoComponentCall EXCEPT !.op = "setNamespaceConfig"]
       /\ UNCHANGED <<metadataInput, pinoLogger, currentLogger, loggers>>
       /\ UNCHANGED <<earlier, patternsInput>>
       /\ UNCHANGED <<storeVars, loggerVars, mixinCall, processVars, validationVars, browserVars>>

\* initLoggerWithNamespaces(options)
initLoggerWithNamespaces(options) ==
    LET parsed == IF options.namespaces # Missing
                  THEN ParseNamespacePatterns(configCache, configs, options.namespaces[1])
                  ELSE [cache |-> configCache, heap |-> configs, config |-> namespaceConfig]
        done == InitLogger(loggers, pinoLogger, options)
    IN /\ Len(parsed.heap) <= MaxConfigs
       /\ Len(done.heap) <= MaxLoggers
       /\ configCache' = parsed.cache
       /\ configs' = parsed.heap
       /\ namespaceConfig' = parsed.config
       /\ IF options.namespaces # Missing
          THEN /\ nsCall' = [NoNsCall EXCEPT !.op = "parse",
                                            !.patterns = options.namespaces[1],
                                            !.config = parsed.config]
               /\ returned' = returned \cup {<<options.namespaces[1], parsed.config>>}
          ELSE UNCHANGED <<nsCall, returned>>
       /\ loggers' = done.heap
       /\ pinoLogger' = done.pinoLogger
       /\ currentLogger' = done.logger
       /\ IF options.fails
          THEN logVia(pinoLogger, InitFailureFields)
          ELSE UNCHANGED <<storeVars, emitted>>
       /\ componentCall' = [NoComponentCall EXCEPT !.op = "initLoggerWithNamespaces",
                                                  !.options = options,
                                                  !.result = done.logger]
       /\ UNCHANGED <<metadataInput, earlier, patternsInput>>
       /\ UNCHANGED <<pc, mixinCall, processVars, validationVars, browserVars>>

Methods == {"info", "child", "setTraceContext", "getTraceContext", "clearTraceContext"}

\* Variant of Delegates: the namespace filter is consulted at every call.
DelegatesWhenEnabled(heap, logger, method) ==
    /\ heap[logger].kind = "pino"
    /\ heap[logger].bindings.namespace # Missing =>
          IsNamespaceEnabled(heap[logger].bindings.namespace[1], configs[namespaceConfig])

DelegatesReads(heap, logger, method) ==
    heap[logger].kind = "pino" \/ method = "getTraceContext"

\* Whether the method of the logger is pino's (or the one
\* enhanceLoggerWithTelemetry added) and not the no-op logger's empty one.
Delegates(heap, logger, method) == heap[logger].kind = "pino"

\* The bound field a child logger adds to its records.
BoundFields(bindings) == {<<"namespace", bindings.namespace>>}

\* logger.info(...), logger.child({}), logger.setTraceContext(context),
\* logger.getTraceContext(), logger.clearTraceContext() on a logger object.
callLogger(logger, method, context) ==
    /\ IF ~Delegates(loggers, logger, method)
       THEN /\ UNCHANGED <<storeVars, emitted, loggers>>
            /\ componentCall' = [NoComponentCall EXCEPT
                                    !.op = method, !.logger = logger, !.arg = context,
                                    !.result = IF method = "child" THEN NoOpLogger
                                               ELSE Undefined]
       ELSE /\ method = "info" =>
                 /\ logVia(logger, BoundFields(loggers[logger].bindings))
                 /\ UNCHANGED loggers
            /\ method = "child" =>
                 /\ Len(loggers) < MaxLoggers
                 /\ loggers' = Child(loggers, logger, NoMetadata).heap
                 /\ UNCHANGED <<storeVars, emitted>>
            /\ method = "setTraceContext" =>
                 /\ setTraceContext(getCurrentThreadId, context)
                 /\ UNCHANGED <<emitted, loggers>>
            /\ method = "getTraceContext" =>
                 /\ getTraceContext(getCurrentThreadId)
                 /\ UNCHANGED <<emitted, loggers>>
            /\ method = "clearTraceContext" =>
                 /\ clearTraceContext(getCurrentThreadId)
                 /\ UNCHANGED <<emitted, loggers>>
            /\ componentCall' = [NoComponentCall EXCEPT
                                    !.op = method, !.logger = logger, !.arg = context,
                                    !.result = IF method = "child" THEN Len(loggers) + 1
                                               ELSE IF method = "getTraceContext" THEN ret'
                                               ELSE Undefined]
    /\ UNCHANGED <<metadataInput, namespaceConfig, pinoLogger, currentLogger>>
    /\ UNCHANGED <<pc, mixinCall, nsVars, processVars, validationVars, browserVars>>

\* logger.ts at module load, with no metadata under test.
LoggerLoaded ==
    /\ StoreInit
    /\ LoadedWith(<<"*">>, NoMetadata)
    /\ ProcessInit
    /\ ValidationInit(NoRawMetadata)
    /\ BrowserNotLoaded

ComponentNext ==
    \/ \E options \in InitOptions : initLogger(options)
    \/ \E options \in InitOptions : initLoggerWithNamespaces(options)
    \/ \E patterns \in ConfiguredPatterns : setNamespaceConfig(patterns)
    \/ \E logger \in {currentLogger, NoOpLogger}, method \in Methods :
          callLogger(logger, method, 1)

ComponentSpec == LoggerLoaded /\ [][ComponentNext]_vars

\* A step that calls a method of the no-op logger.
NoOpStep == componentCall'.op \in Methods /\ componentCall'.logger = NoOpLogger

\* C23: a method of the no-op logger does no work: a level method,
\* setTraceContext and clearTraceContext leave the store (entries and
\* lastAccessed), the namespace configuration and the current logger
\* unchanged and write no record, child() returns the no-op logger itself,
\* and getTraceContext() returns undefined, also when the store holds a
\* context for the current id.
C23_NoOpLoggerDoesNothing ==
    [][NoOpStep =>
          /\ UNCHANGED <<traceContextManager, namespaceConfig, configs, currentLogger,
                         loggers, emitted>>
          /\ componentCall'.op = "child" => componentCall'.result = NoOpLogger
          /\ componentCall'.op # "child" => componentCall'.result = Undefined]_vars

\* getTraceContext() of the no-op logger returned undefined while the store
\* held a context for the current id.
C23_Witness ==
    /\ componentCall.op = "getTraceContext"
    /\ componentCall.logger = NoOpLogger
    /\ componentCall.result = Undefined
    /\ MapHas(Contexts, getCurrentThreadId)
    /\ ~IsExpired(MapGet(Contexts, getCurrentThreadId), now)

\* C25: after initLogger(options) with options.namespaces = p, the active
\* namespace configuration is the one parsed from p.
C25_InitLoggerSetsNamespaces ==
    [][(componentCall'.op = "initLogger" /\ componentCall'.options.namespaces # Missing
          /\ ~componentCall'.options.fails) =>
          configs'[namespaceConfig'] = NewConfig(componentCall'.options.namespaces[1])]_vars

\* The namespaces component loggers are created for.
ComponentNamespaces == {BuildNamespace(metadata) : metadata \in ComponentMetadata}

\* C26: after initLoggerWithNamespaces(options) with options lacking
\* namespaces, every namespace is enabled, whatever configuration was active
\* before the call.
C26_NamespacesDefaultToAll ==
    [][(componentCall'.op = "initLoggerWithNamespaces"
          /\ componentCall'.options.namespaces = Missing) =>
          \A namespace \in ComponentNamespaces :
              IsNamespaceEnabled(namespace, configs'[namespaceConfig'])]_vars

\* ------------------------------------------------------ process handlers
\* The logDir argument: not given, a directory that can be set up, or one
\* whose setup throws.
LogDirs == {"none", "usable", "unusable"}

Events == {"uncaughtException", "unhandledRejection"}

\* process.off(event, listener): the last occurrence of the listener leaves.
Off(registered, listener) ==
    IF \E i \in 1 .. Len(registered) : registered[i] = listener
    THEN LET last == CHOOSE i \in 1 .. Len(registered) :
                        /\ registered[i] = listener
                        /\ \A j \in (i + 1) .. Len(registered) : registered[j] # listener
         IN [i \in 1 .. (Len(registered) - 1) |->
                IF i < last THEN registered[i] ELSE registered[i + 1]]
    ELSE registered

UnregisterNothing(refs, registered) == [refs |-> refs, listeners |-> registered]

\* unregisterProcessHandlers(): handlerRefs and the process listeners after it.
Unregister(refs, registered) ==
    [refs |-> [event \in Events |-> Undefined],
     listeners |-> [event \in Events |->
                      IF refs[event] # Undefined
                      THEN Off(registered[event], refs[event])
                      ELSE registered[event]]]

unregisterProcessHandlers ==
    LET done == Unregister(handlerRefs, listeners)
    IN /\ handlerRefs' = done.refs
       /\ listeners' = done.listeners
       /\ processCall' = [NoProcessCall EXCEPT !.op = "unregister"]
       /\ UNCHANGED handlers
       /\ UNCHANGED <<storeVars, loggerVars, mixinCall, nsVars, componentVars, validationVars, browserVars>>

SetupFailureFields == {<<"msg", "Failed to setup exception logging directory">>}

\* registerProcessHandlers(logger, logDir): the two closures are handlers
\* Len(handlers) + 1 and Len(handlers) + 2.
registerProcessHandlers(logger, logDir) ==
    LET cleaned == Unregister(handlerRefs, listeners)
        toFile == logDir = "usable"
        exception == Len(handlers) + 1
        rejection == Len(handlers) + 2
    IN /\ Len(handlers) + 2 <= MaxHandlers
       /\ IF logDir = "unusable"
          THEN logVia(logger, SetupFailureFields)
          ELSE UNCHANGED <<storeVars, emitted>>
       /\ handlers' = handlers \o
             <<[event |-> "uncaughtException", logger |-> logger, toFile |-> toFile],
               [event |-> "unhandledRejection", logger |-> logger, toFile |-> toFile]>>
       /\ handlerRefs' = [uncaughtException |-> exception, unhandledRejection |-> rejection]
       /\ listeners' = [uncaughtException |-> Append(cleaned.listeners.uncaughtException,
                                                      exception),
                        unhandledRejection |-> Append(cleaned.listeners.unhandledRejection,
                                                       rejection)]
       /\ processCall' = [NoProcessCall EXCEPT !.op = "register", !.logger = logger]
       /\ UNCHANGED <<pc, mixinCall, nsVars, componentVars, validationVars, browserVars>>

HandlerMessage(event) ==
    IF event = "uncaughtException"
    THEN "Uncaught exception - process will terminate"
    ELSE "Unhandled promise rejection"

FileMessage(event) ==
    IF event = "uncaughtException" THEN "Uncaught exception" ELSE "Unhandled rejection"

\* The process emits the event: every listener registered for it runs,
\* logging through its logger and, when it has one, through its file logger.
processEmit(event) ==
    LET running == {listeners[event][i] : i \in 1 .. Len(listeners[event])}
        logging == {h \in running : loggers[handlers[h].logger].kind = "pino"}
        toFile == {h \in running : handlers[h].toFile}
    IN /\ running # {}
       /\ IF logging # {}
          THEN getTraceContext(getCurrentThreadId)
          ELSE UNCHANGED storeVars
       /\ emitted' = emitted
             \cup {[task |-> Undefined,
                    fields |-> MixinRecord(ret') \cup {<<"msg", HandlerMessage(event)>>}] :
                      h \in logging}
             \cup {[task |-> Undefined,
                    fields |-> {<<"msg", FileMessage(event)>>}] : h \in toFile}
       /\ processCall' = [NoProcessCall EXCEPT !.op = event]
       /\ UNCHANGED <<handlerRefs, listeners, handlers>>
       /\ UNCHANGED <<pc, mixinCall, nsVars, componentVars, validationVars, browserVars>>

ProcessNext ==
    \/ \E logger \in {BaseLogger, NoOpLogger}, logDir \in LogDirs :
          registerProcessHandlers(logger, logDir)
    \/ unregisterProcessHandlers
    \/ \E event \in Events : processEmit(event)

ProcessSpec == LoggerLoaded /\ [][ProcessNext]_vars

\* The handlers of this module registered for the event.
Registered(event) ==
    {i \in 1 .. Len(listeners[event]) : handlers[listeners[event][i]].event = event}

\* C27: after any sequence of registerProcessHandlers and
\* unregisterProcessHandlers at most one handler of this module is
\* registered for each of the two events: exactly one after a register,
\* created by that call and bound to its logger, none after an unregister,
\* with or without a registration before it.
C27_AtMostOneHandlerPerEvent ==
    \A event \in Events :
        /\ Cardinality(Registered(event)) <= 1
        /\ processCall.op = "register" =>
              /\ Len(listeners[event]) = 1
              /\ listeners[event][1] = handlerRefs[event]
              /\ handlers[listeners[event][1]].logger = processCall.logger
              /\ listeners[event][1] \in {Len(handlers) - 1, Len(handlers)}
        /\ processCall.op = "unregister" =>
              /\ listeners[event] = <<>>
              /\ handlerRefs[event] = Undefined

\* A second register replaced the handlers of the first, bound to another
\* logger.
C27_Witness ==
    /\ processCall.op = "register"
    /\ Len(handlers) = 4
    /\ handlers[1].logger # processCall.logger
    /\ listeners.uncaughtException = <<3>>
    /\ listeners.unhandledRejection = <<4>>

\* ------------------------------------------------ validateServiceMetadata
ValueKinds == {"absent", "valid", "invalid"}

\* A further entry: a valid key with a value sanitizeValue keeps, a key
\* isValidKey rejects, or a valid key whose value is undefined.
EntryKinds == {"valid", "badKey", "undefined"}

\* The key of the i-th further entry.
OtherKeys == <<"a", "b", "x", "y", "z">>

AllRawMetadata ==
    {[kind |-> "object", known |-> known, spanContext |-> spanContext, others |-> others] :
        known \in [1 .. Len(KnownServiceFields) -> ValueKinds],
        spanContext \in ValueKinds,
        others \in UNION {[1 .. n -> EntryKinds] : n \in 0 .. MaxOthers}}
    \cup {NoRawMetadata, [NoRawMetadata EXCEPT !.kind = "string"]}

\* processKnownFields from the i-th known field on.
RECURSIVE ProcessKnownFields(_, _, _, _)
ProcessKnownFields(meta, i, validated, fieldCount) ==
    IF i > Len(KnownServiceFields)
    THEN [validated |-> validated, fieldCount |-> fieldCount]
    ELSE IF meta.known[i] # "absent" /\ fieldCount < MaxContextFields
              /\ meta.known[i] = "valid"
         THEN ProcessKnownFields(meta, i + 1, validated \cup {KnownServiceFields[i]},
                                 fieldCount + 1)
         ELSE ProcessKnownFields(meta, i + 1, validated, fieldCount)

\* processAdditionalFields from the i-th further entry on; the entries of
\* the known fields and of spanContext are passed over by the loop.
RECURSIVE ProcessAdditionalFields(_, _, _, _)
ProcessAdditionalFields(meta, i, validated, fieldCount) ==
    IF i > Len(meta.others) \/ fieldCount >= MaxContextFields
    THEN validated
    ELSE IF meta.others[i] = "valid"
         THEN ProcessAdditionalFields(meta, i + 1, validated \cup {OtherKeys[i]},
                                      fieldCount + 1)
         ELSE ProcessAdditionalFields(meta, i + 1, validated, fieldCount)

\* validateServiceMetadata(metadata): the keys of the object returned.
ValidateServiceMetadata(meta) ==
    IF meta.kind # "object"
    THEN {}
    ELSE LET known == ProcessKnownFields(meta, 1, {}, 0)
             withSpan == IF meta.spanContext = "valid"
                         THEN known.validated \cup {"spanContext"}
                         ELSE known.validated
         IN ProcessAdditionalFields(meta, 1, withSpan, known.fieldCount)

validateServiceMetadata(metadata) ==
    /\ validateCall' = [op |-> "validate", keys |-> ValidateServiceMetadata(metadata)]
    /\ UNCHANGED rawMetadata
    /\ UNCHANGED <<storeVars, loggerVars, mixinCall, nsVars, componentVars, processVars,
                   browserVars>>

ValidateInit ==
    /\ StoreInit
    /\ FilterInit(<<>>)
    /\ ComponentInit(NoMetadata)
    /\ ProcessInit
    /\ \E metadata \in AllRawMetadata : ValidationInit(metadata)
    /\ BrowserNotLoaded

ValidateNext == validateServiceMetadata(rawMetadata)

ValidateSpec == ValidateInit /\ [][ValidateNext]_vars

\* C28: the object validateServiceMetadata returns has at most
\* MAX_CONTEXT_FIELDS keys.
C28_AtMostMaxContextFields ==
    validateCall.op = "validate" => Cardinality(validateCall.keys) <= MaxContextFields

\* ------------------------------------------------- eviction and the sweep
\* C29: eviction is least-recently-used.  A successful get(a) sets a's
\* lastAccessed to the time of the read, and a capacity eviction never
\* removes an entry a while another entry b whose last access is strictly
\* earlier than a's is in the store.
C29_ReadProtectsFromEviction ==
    [][/\ (GetStep /\ ret' # Undefined) =>
             /\ MapHas(Contexts', call'.threadId)
             /\ MapGet(Contexts', call'.threadId).lastAccessed = now
       /\ (SetStep /\ call'.removed # Undefined) =>
             \A b \in Keys(Contexts) \ {call'.removed} :
                 MapGet(Contexts, b).lastAccessed
                     >= MapGet(Contexts, call'.removed).lastAccessed]_vars

\* An eviction has removed an entry and kept one that was stored earlier and
\* read since.
C29_Witness ==
    /\ call.op = "set"
    /\ call.removed # Undefined
    /\ \E a \in Keys(Contexts) \ {call.threadId} :
          /\ MapGet(Contexts, a).lastAccessed > MapGet(Contexts, a).timestamp
          /\ MapGet(Contexts, a).timestamp < now

\* A run of the store's interval callback.
SweepStep == call'.op = "sweep" /\ cleanupTick /\ TimerDue(traceContextManager, now)

\* C30: a sweep tick removes exactly the entries whose age now - timestamp
\* exceeds ttlMs, and leaves every other entry as it was (context,
\* timestamp, lastAccessed, position); an entry of age ttlMs or less stays.
C30_SweepRemovesExactlyExpired ==
    [][SweepStep =>
          /\ \A key \in Keys(Contexts) :
                MapHas(Contexts', key) <=> now - MapGet(Contexts, key).timestamp <= TtlMs
          /\ \A key \in Keys(Contexts') :
                /\ MapHas(Contexts, key)
                /\ MapGet(Contexts', key) = MapGet(Contexts, key)
          /\ \A i, j \in 1 .. Len(Contexts') :
                i < j => IndexOf(Contexts, Contexts'[i].key) < IndexOf(Contexts, Contexts'[j].key)]_vars

\* A sweep has run and kept an entry whose age is exactly ttlMs, read
\* before the sweep.
C30_Witness ==
    /\ call.op = "sweep"
    /\ now = MaxTime
    /\ \E key \in Keys(Contexts) :
          /\ now - MapGet(Contexts, key).timestamp = TtlMs
          /\ MapGet(Contexts, key).lastAccessed = now

\* ------------------------------------------------- the filter's sentinel
\* C31: parseNamespacePatterns yields an empty matcher list only when the
\* trimmed input is the empty string or exactly "*"; every other input
\* yields at least one matcher and enables a namespace only when one of its
\* segments matches it.
C31_SentinelOnlyForEmptyOrStar ==
    (nsCall.op # "none"
       /\ ~(OnlyWhiteSpace(patternsInput) \/ OneStarInWhiteSpace(patternsInput)))
        => /\ Len(configs[nsCall.config].matchers) >= 1
           /\ (nsCall.op = "isNamespaceEnabled" /\ nsCall.enabled) =>
                 \E segment \in TrimmedSegments(patternsInput) :
                     RegExpTest(RegExpSource(segment), nsCall.namespace)

\* ------------------------------------------- loggers already handed out
\* Component loggers are created, the configuration is changed, and every
\* logger created so far is logged through.
DecisionNext ==
    \/ \E options \in InitOptions : initLogger(options)
    \/ \E options \in InitOptions : initLoggerWithNamespaces(options)
    \/ \E patterns \in ConfiguredPatterns : setNamespaceConfig(patterns)
    \/ \E metadata \in ComponentMetadata : createComponentLogger(metadata)
    \/ \E logger \in 1 .. Len(loggers) : callLogger(logger, "info", Undefined)

DecisionSpec == LoggerLoaded /\ [][DecisionNext]_vars

\* C32: the enabled/disabled decision of a component logger is fixed when
\* createComponentLogger returns.  No later call changes a logger object
\* already returned, and whatever configuration is active when it is logged
\* through, the no-op logger writes nothing and a real logger writes its
\* record.
C32_DecisionFixedAtCreation ==
    [][/\ \A logger \in 1 .. Len(loggers) :
             /\ logger <= Len(loggers')
             /\ loggers'[logger] = loggers[logger]
       /\ componentCall'.op = "info" =>
             LET logger == componentCall'.logger
             IN IF logger = NoOpLogger
                THEN emitted' = emitted
                ELSE \E record \in emitted' :
                        <<"namespace", loggers[logger].bindings.namespace>>
                            \in record.fields]_vars

\* A real component logger has written a record while the configuration
\* active at that moment disables its namespace.
C32_Witness ==
    /\ componentCall.op = "info"
    /\ componentCall.logger > NoOpLogger
    /\ loggers[componentCall.logger].bindings.namespace # Missing
    /\ ~IsNamespaceEnabled(loggers[componentCall.logger].bindings.namespace[1],
                           configs[namespaceConfig])
    /\ \E record \in emitted :
          <<"namespace", loggers[componentCall.logger].bindings.namespace>> \in record.fields

\* --------------------------------------- clearing the cache under a logger
CacheNext ==
    \/ \E patterns \in ActivePatterns : setNamespaceConfig(patterns)
    \/ clearNamespaceCache
    \/ \E metadata \in ComponentMetadata : createComponentLogger(metadata)

CacheSpec == LoggerLoaded /\ [][CacheNext]_vars

\* For every metadata, whether createComponentLogger would return the no-op
\* logger now.
Disabled ==
    [metadata \in ComponentMetadata |->
        CreateComponentLogger(loggers, currentLogger, configs[namespaceConfig],
                              metadata).logger = NoOpLogger]

\* A call of clearNamespaceCache.
ClearCacheStep == nsCall'.op = "clear" /\ clearNamespaceCache

\* C33: clearNamespaceCache changes only the cache: the active namespace
\* configuration is the same object, with the same contents, before and
\* after, and createComponentLogger decides the same for every metadata.
C33_ClearCacheKeepsActiveConfig ==
    [][ClearCacheStep =>
          /\ namespaceConfig' = namespaceConfig
          /\ configs' = configs
          /\ Disabled' = Disabled
          /\ UNCHANGED <<loggers, currentLogger, pinoLogger>>]_vars

\* The cache was cleared under a restrictive configuration, and a component
\* logger asked for since then was refused.
C33_Witness ==
    /\ nsCall.op = "clear"
    /\ configCache = EmptyCache
    /\ configs[namespaceConfig].matchers # <<>>
    /\ componentCall.op = "createComponentLogger"
    /\ componentCall.result = NoOpLogger
    /\ \E metadata \in ComponentMetadata : ~Disabled[metadata]

\* ------------------------------------------ the parent of a component logger
\* C34: pinoLogger is the logger returned by the most recent successful
\* initLogger or initLoggerWithNamespaces call, and once there was such a
\* call, a real logger returned by createComponentLogger is a child of it.
C34_ChildOfMostRecentlyInitialised ==
    [][/\ componentCall'.op \in {"initLogger", "initLoggerWithNamespaces"} =>
             IF componentCall'.options.fails
             THEN pinoLogger' = pinoLogger
             ELSE pinoLogger' = componentCall'.result /\ pinoLogger' > Len(loggers)
       /\ componentCall'.op \notin {"initLogger", "initLoggerWithNamespaces"} =>
             pinoLogger' = pinoLogger
       /\ (CreateStep /\ componentCall'.result # NoOpLogger /\ pinoLogger # BaseLogger) =>
             loggers'[componentCall'.result].parent = pinoLogger]_vars

\* -------------------------------------------------------- browser logger
\* A BrowserLogger instance: the instance whose child() constructed it,
\* options.remote.enableOfflineBuffer, its traceContext and its batchBuffer
\* (entries by their index in entries).  Every instance has options.remote.
NewBrowserLogger(parent, enableOfflineBuffer) ==
    [parent |-> parent, enableOfflineBuffer |-> enableOfflineBuffer,
     traceContext |-> Undefined, batchBuffer |-> <<>>]

\* Array.prototype.slice(-n)
SliceLast(array, n) ==
    IF Len(array) <= n THEN array ELSE SubSeq(array, Len(array) - n + 1, Len(array))

SaveKeepingOldest(existing, logs) ==
    IF Len(existing \o logs) <= MaxOfflineBufferSize
    THEN existing \o logs
    ELSE SubSeq(existing \o logs, 1, MaxOfflineBufferSize)

\* saveToOfflineBuffer(logs): the array stored afterwards.
SaveToOfflineBuffer(existing, logs) == SliceLast(existing \o logs, MaxOfflineBufferSize)

SendBatchKeepingBuffer(heap, sent, logger) ==
    IF Len(heap[logger].batchBuffer) = 0
    THEN [loggers |-> heap, attempts |-> sent]
    ELSE [loggers |-> heap,
          attempts |-> Append(sent, [logger |-> logger, logs |-> heap[logger].batchBuffer,
                                     status |-> "pending"])]

\* sendBatch() up to its await: the buffer is copied and emptied and the
\* request is started.
SendBatch(heap, sent, logger) ==
    IF Len(heap[logger].batchBuffer) = 0
    THEN [loggers |-> heap, attempts |-> sent]
    ELSE [loggers |-> [heap EXCEPT ![logger].batchBuffer = <<>>],
          attempts |-> Append(sent, [logger |-> logger, logs |-> heap[logger].batchBuffer,
                                     status |-> "pending"])]

\* new BrowserLogger(options) with options.remote: the timer is started and
\* loadOfflineBuffer moves a stored array into the batch buffer, removes
\* the item and calls sendBatch.
Construct(heap, sent, stored, parent, enableOfflineBuffer) ==
    LET made == Append(heap, NewBrowserLogger(parent, enableOfflineBuffer))
        logger == Len(heap) + 1
    IN IF Len(stored) > 0
       THEN LET loaded == [made EXCEPT ![logger].batchBuffer = stored]
                sending == SendBatch(loaded, sent, logger)
            IN [loggers |-> sending.loggers, attempts |-> sending.attempts,
                stored |-> <<>>, logger |-> logger]
       ELSE [loggers |-> made, attempts |-> sent, stored |-> stored, logger |-> logger]

\* The levels of the log calls made; options.level is info.
Levels == {"debug", "info"}

\* log(level, ...): a level below options.level returns at once; otherwise
\* the entry is built with the instance's trace context and added to the
\* batch, which is sent when it has reached the batch size.
browser_log(logger, level) ==
    IF level = "debug"
    THEN /\ browserCall' = [NoBrowserCall EXCEPT !.op = "log"]
         /\ UNCHANGED <<browserLoggers, entries, attempts, localStorage, online>>
         /\ UNCHANGED nodeVars
    ELSE LET entry == Len(entries) + 1
             added == [browserLoggers EXCEPT ![logger].batchBuffer = Append(@, entry)]
             sending == IF Len(added[logger].batchBuffer) >= BatchSize
                        THEN SendBatch(added, attempts, logger)
                        ELSE [loggers |-> added, attempts |-> attempts]
         IN /\ Len(entries) < MaxEntries
            /\ entries' = Append(entries,
                                 [logger |-> logger,
                                  trace_id |-> browserLoggers[logger].traceContext,
                                  span_id |-> browserLoggers[logger].traceContext])
            /\ browserLoggers' = sending.loggers
            /\ attempts' = sending.attempts
            /\ browserCall' = [NoBrowserCall EXCEPT !.op = "log", !.entry = entry]
            /\ UNCHANGED <<localStorage, online>>
            /\ UNCHANGED nodeVars

\* flush()
browser_flush(logger) ==
    LET sending == SendBatch(browserLoggers, attempts, logger)
    IN /\ browserLoggers' = sending.loggers
       /\ attempts' = sending.attempts
       /\ browserCall' = [NoBrowserCall EXCEPT !.op = "flush"]
       /\ UNCHANGED <<entries, localStorage, online>>
       /\ UNCHANGED nodeVars

\* The callback of the instance's batch timer.
batchTimerTick(logger) ==
    LET sending == SendBatch(browserLoggers, attempts, logger)
    IN /\ logger \in 1 .. Len(browserLoggers)
       /\ browserLoggers' = sending.loggers
       /\ attempts' = sending.attempts
       /\ browserCall' = [NoBrowserCall EXCEPT !.op = "tick"]
       /\ UNCHANGED <<entries, localStorage, online>>
       /\ UNCHANGED nodeVars

\* The rest of sendBatch: the request settles.  A rejected request or a
\* response that is not ok goes to the catch, which saves the logs when
\* offline buffering is enabled; localStorage.setItem may throw (quota).
fetchSettles(attempt) ==
    /\ attempt \in 1 .. Len(attempts)
    /\ attempts[attempt].status = "pending"
    /\ IF online
       THEN /\ attempts' = [attempts EXCEPT ![attempt].status = "ok"]
            /\ browserCall' = [NoBrowserCall EXCEPT !.op = "settle", !.attempt = attempt]
            /\ UNCHANGED localStorage
       ELSE /\ attempts' = [attempts EXCEPT ![attempt].status = "failed"]
            /\ \E saved \in IF browserLoggers[attempts[attempt].logger].enableOfflineBuffer
                              THEN BOOLEAN ELSE {FALSE} :
                  /\ localStorage' = IF saved
                                     THEN SaveToOfflineBuffer(localStorage,
                                                              attempts[attempt].logs)
                                     ELSE localStorage
                  /\ browserCall' = [NoBrowserCall EXCEPT
                                        !.op = "settle", !.attempt = attempt,
                                        !.saved = saved, !.existing = Len(localStorage)]
    /\ UNCHANGED <<browserLoggers, entries, online>>
    /\ UNCHANGED nodeVars

\* child(childContext)
browser_child(logger) ==
    LET constructed == Construct(browserLoggers, attempts, localStorage, logger,
                                 browserLoggers[logger].enableOfflineBuffer)
    IN /\ Len(browserLoggers) < MaxBrowserLoggers
       /\ browserLoggers' = constructed.loggers
       /\ attempts' = constructed.attempts
       /\ localStorage' = constructed.stored
       /\ browserCall' = [NoBrowserCall EXCEPT !.op = "child"]
       /\ UNCHANGED <<entries, online>>
       /\ UNCHANGED nodeVars

browser_setTraceContext(logger, context) ==
    /\ browserLoggers' = [browserLoggers EXCEPT ![logger].traceContext = context]
    /\ browserCall' = [NoBrowserCall EXCEPT !.op = "setTraceContext"]
    /\ UNCHANGED <<entries, attempts, localStorage, online>>
    /\ UNCHANGED nodeVars

browser_clearTraceContext(logger) ==
    /\ browserLoggers' = [browserLoggers EXCEPT ![logger].traceContext = Undefined]
    /\ browserCall' = [NoBrowserCall EXCEPT !.op = "clearTraceContext"]
    /\ UNCHANGED <<entries, attempts, localStorage, online>>
    /\ UNCHANGED nodeVars

\* The remote endpoint starts or stops accepting requests.
endpointChanges ==
    /\ online' = ~online
    /\ browserCall' = [NoBrowserCall EXCEPT !.op = "endpoint"]
    /\ UNCHANGED <<browserLoggers, entries, attempts, localStorage>>
    /\ UNCHANGED nodeVars

\* One BrowserLogger constructed with options.remote on a page whose
\* localStorage holds no offline buffer.
BrowserInit ==
    /\ StoreInit
    /\ FilterInit(<<>>)
    /\ ComponentInit(NoMetadata)
    /\ ProcessInit
    /\ ValidationInit(NoRawMetadata)
    /\ \E enableOfflineBuffer \in BOOLEAN :
          browserLoggers = Construct(<<>>, <<>>, <<>>, Undefined, enableOfflineBuffer).loggers
    /\ entries = <<>>
    /\ attempts = <<>>
    /\ localStorage = <<>>
    /\ online \in BOOLEAN
    /\ browserCall = NoBrowserCall

\* What one instance is used for, and what happens to its requests.
BatchNext ==
    \/ \E logger \in 1 .. Len(browserLoggers), level \in Levels : browser_log(logger, level)
    \/ \E logger \in 1 .. Len(browserLoggers) : browser_flush(logger)
    \/ \E logger \in 1 .. Len(browserLoggers) : batchTimerTick(logger)
    \/ \E attempt \in 1 .. Len(attempts) : fetchSettles(attempt)
    \/ endpointChanges

\* The same with further instances made by child().
BrowserNext ==
    \/ BatchNext
    \/ \E logger \in 1 .. Len(browserLoggers) : browser_child(logger)

BrowserSpec == BrowserInit /\ [][BrowserNext]_vars

\* Instances, their trace contexts and the entries logged through them.
BrowserTraceNext ==
    \/ \E logger \in 1 .. Len(browserLoggers), level \in Levels : browser_log(logger, level)
    \/ \E logger \in 1 .. Len(browserLoggers) : browser_child(logger)
    \/ \E logger \in 1 .. Len(browserLoggers), context \in SpanContexts :
          browser_setTraceContext(logger, context)
    \/ \E logger \in 1 .. Len(browserLoggers) : browser_clearTraceContext(logger)

BrowserTraceSpec == BrowserInit /\ [][BrowserTraceNext]_vars

\* One instance, no other constructed: timers fire, requests settle, and
\* the endpoint, once it accepts requests, goes on accepting them.
BatchLiveSpec ==
    /\ BrowserInit
    /\ [][BatchNext]_vars
    /\ \A logger \in 1 .. MaxBrowserLoggers : WF_vars(batchTimerTick(logger))
    /\ \A attempt \in 1 .. (2 * MaxEntries) : WF_vars(fetchSettles(attempt))

\* The requests an instance has started.
AttemptsOf(logger) == {a \in 1 .. Len(attempts) : attempts[a].logger = logger}

\* The requests that hold the entry.
AttemptsWith(entry) ==
    {a \in 1 .. Len(attempts) :
        \E i \in 1 .. Len(attempts[a].logs) : attempts[a].logs[i] = entry}

\* C35: under every interleaving of size-triggered sends, timer ticks,
\* flush calls and pending requests, no entry is in more than one request an
\* instance starts from its batch buffer, or twice in one, and an entry in a
\* request is no longer in the buffer: sendBatch takes the whole buffer and
\* empties it before it awaits.
C35_NoEntrySentTwice ==
    \A logger \in 1 .. Len(browserLoggers) :
        /\ \A entry \in 1 .. Len(entries) :
              Cardinality(AttemptsWith(entry) \cap AttemptsOf(logger)) <= 1
        /\ \A a \in AttemptsOf(logger) :
              /\ \A i, j \in 1 .. Len(attempts[a].logs) :
                    attempts[a].logs[i] = attempts[a].logs[j] => i = j
              /\ \A i \in 1 .. Len(attempts[a].logs),
                    j \in 1 .. Len(browserLoggers[logger].batchBuffer) :
                    attempts[a].logs[i] # browserLoggers[logger].batchBuffer[j]

\* Two requests of one instance are pending at once, the first started by
\* the batch size, while a timer tick has just run.
C35_Witness ==
    /\ browserCall.op = "tick"
    /\ \E a, b \in AttemptsOf(1) :
          /\ a < b
          /\ attempts[a].status = "pending"
          /\ attempts[b].status = "pending"
          /\ Len(attempts[a].logs) = BatchSize

\* A request has failed and its logs were written to the offline buffer.
SaveStep == browserCall'.op = "settle" /\ browserCall'.saved
                /\ fetchSettles(browserCall'.attempt)

\* C36: the offline buffer never holds more than MAX_OFFLINE_BUFFER_SIZE
\* entries, and a save leaves in it the most recently saved entries, as many
\* as fit, in the order they were saved in.
C36_OfflineBufferKeepsNewest ==
    [][/\ Len(localStorage') <= MaxOfflineBufferSize
       /\ SaveStep =>
             LET all == localStorage \o attempts[browserCall'.attempt].logs
                 dropped == Len(all) - Len(localStorage')
             IN /\ Len(localStorage') = IF Len(all) < MaxOfflineBufferSize
                                        THEN Len(all) ELSE MaxOfflineBufferSize
                /\ \A i \in 1 .. Len(localStorage') :
                      localStorage'[i] = all[dropped + i]]_vars

\* A save has overflowed the offline buffer.
C36_Witness ==
    /\ browserCall.op = "settle"
    /\ browserCall.saved
    /\ browserCall.existing > 0
    /\ browserCall.existing + Len(attempts[browserCall.attempt].logs) > MaxOfflineBufferSize
    /\ Len(localStorage) = MaxOfflineBufferSize

\* The request has failed on an instance with offline buffering enabled.
FailedWithOfflineBuffer(a) ==
    /\ a <= Len(attempts)
    /\ attempts[a].status = "failed"
    /\ browserLoggers[attempts[a].logger].enableOfflineBuffer

\* Every entry of the request is in a later request of the same instance.
SentAgain(a) ==
    /\ a <= Len(attempts)
    /\ \A i \in 1 .. Len(attempts[a].logs) :
          \E b \in AttemptsWith(attempts[a].logs[i]) \cap AttemptsOf(attempts[a].logger) :
              b > a

\* C37: with offline buffering enabled, the entries of a batch whose send
\* has failed are sent again by the same instance once the endpoint accepts
\* requests, through a later timer tick or flush, without another logger
\* being constructed: from a failed batch and an accepting endpoint, the
\* entries are eventually sent again unless the endpoint stops accepting.
C37_FailedBatchEventuallyResent ==
    \A a \in 1 .. MaxEntries :
        (FailedWithOfflineBuffer(a) /\ online) ~> (SentAgain(a) \/ ~online)

\* C38: an entry logged through a child carries the trace_id and span_id of
\* the trace context its parent holds.
C38_ChildSharesTraceContext ==
    [][(browserCall'.op = "log" /\ browserCall'.entry # Undefined) =>
          LET parent == browserLoggers[entries'[browserCall'.entry].logger].parent
          IN (parent # Undefined /\ browserLoggers[parent].traceContext # Undefined) =>
                /\ entries'[browserCall'.entry].trace_id = browserLoggers[parent].traceContext
                /\ entries'[browserCall'.entry].span_id = browserLoggers[parent].traceContext]_vars

TypeOK ==
    /\ now \in 0 .. MaxTime
    /\ traceContextManager.cleanupTimer \in 0 .. (MaxTime + CleanupIntervalMs)
    /\ \A i \in 1 .. Len(traceContextManager.contexts) :
          LET e == traceContextManager.contexts[i]
          IN /\ e.key \in ThreadIds
             /\ e.context \in SpanContexts
             /\ e.timestamp \in 0 .. now
             /\ e.lastAccessed \in e.timestamp .. now
    /\ Cardinality(Keys(traceContextManager.contexts)) = Len(traceContextManager.contexts)

====
